---------------------------- MODULE Spec2Model ----------------------------
(***************************************************************************)
(* A model of the packet protection layer of OpenPGP.js:                   *)
(*   - the Secret-Key packet (src/src/packet/secret_key.js): its state,    *)
(*     read/write, encrypt/decrypt under a passphrase, validate, generate, *)
(*     makeDummy and clearPrivateParams;                                   *)
(*   - the Public-Key Encrypted Session Key packet                         *)
(*     (src/src/packet/public_key_encrypted_session_key.js): the session   *)
(*     key encoding and the decrypt path;                                  *)
(*   - the parts of the algorithm dispatcher (src/src/crypto/crypto.js)    *)
(*     the two packets call.                                               *)
(*                                                                         *)
(* Byte arrays are sequences of numbers in 0..255.  A JavaScript value     *)
(* that may be null or undefined is a sequence of length 0 (Null) or       *)
(* 1 (Some(v)).  An operation that may throw returns a record whose err    *)
(* field is "ok" or names the error; when the code mutates the object      *)
(* before it throws, the record carries the mutated object.                *)
(*                                                                         *)
(* The primitives the code consumes from libraries (block cipher modes,    *)
(* digests, S2K, HKDF, public-key primitives) are modelled by small        *)
(* arithmetic stand-ins that keep the properties the packets rely on:      *)
(* decryption inverts encryption under the same key, a different key       *)
(* yields a different cleartext whose digest or tag does not verify.       *)
(***************************************************************************)
EXTENDS Integers, Sequences, FiniteSets, TLC

(***************************************************************************)
(* Bounds of the model.                                                    *)
(***************************************************************************)
\* passphrases are 0 (the empty string) and 1..MaxPass
MaxPass == 2
\* values the random generator may return (salt and IV filler): 1..MaxRand
MaxRand == 1

(***************************************************************************)
(* Nullable values and byte arrays.                                        *)
(***************************************************************************)
Null == <<>>
Some(v) == <<v>>
Val(o) == o[1]
IsNull(o) == o = <<>>

\* F applied to the value of v, which is computed once
With(v, F(_)) == CHOOSE y \in {F(w) : w \in {v}} : TRUE

Min(a, b) == IF a < b THEN a ELSE b
Max(a, b) == IF a < b THEN b ELSE a

RECURSIVE Sum(_)
Sum(s) == IF s = <<>> THEN 0 ELSE s[1] + Sum(Tail(s))

\* n copies of byte b
Fill(n, b) == [i \in 1..n |-> b]

\* bytes.subarray(begin, end) for 0 <= begin, 0 <= end (clamped to the length)
Subarray(bytes, begin, end) ==
  SubSeq(bytes, Min(begin, Len(bytes)) + 1, Min(end, Len(bytes)))

\* bytes.subarray(begin) for 0 <= begin
SubarrayFrom(bytes, begin) == Subarray(bytes, begin, Len(bytes))

\* bytes.subarray(0, -n): all but the last n bytes
DropLast(bytes, n) == Subarray(bytes, 0, Max(Len(bytes) - n, 0))

\* bytes.subarray(-n): the last n bytes
TakeLast(bytes, n) == SubarrayFrom(bytes, Max(Len(bytes) - n, 0))

\* bytes[i] for a 0-based index; reading past the end yields undefined
Undefined == 0 - 1
At(bytes, i) == IF i < Len(bytes) THEN bytes[i + 1] ELSE Undefined

\* JavaScript truthiness of a number that may be undefined
Truthy(x) == x # 0 /\ x # Undefined

\* util.writeNumber(n, 4)
writeNumber4(n) == << (n \div 16777216) % 256, (n \div 65536) % 256, (n \div 256) % 256, n % 256 >>

\* util.writeChecksum: 2-byte big-endian sum of the bytes mod 65536
writeChecksum(bytes) ==
  LET s == Sum(bytes) % 65536 IN << s \div 256, s % 256 >>

(***************************************************************************)
(* The MPI codec (util.readMPI, util.uint8ArrayToMPI, util.leftPad).       *)
(***************************************************************************)
\* util.nbits: number of significant bits of a byte
RECURSIVE nbits(_)
nbits(b) == IF b = 0 THEN 0 ELSE 1 + nbits(b \div 2)

\* index (0-based) of the leading non-zero byte, Len(bin) when there is none
RECURSIVE leadingNonZero(_, _)
leadingNonZero(bin, i) ==
  IF i >= Len(bin) THEN Len(bin)
  ELSE IF bin[i + 1] # 0 THEN i ELSE leadingNonZero(bin, i + 1)

uint8ArrayBitLength(bin) ==
  LET i == leadingNonZero(bin, 0) IN
  IF i = Len(bin) THEN 0
  ELSE (Len(bin) - i - 1) * 8 + nbits(bin[i + 1])

\* util.uint8ArrayToMPI: 2-byte bit length, then the bytes from the leading
\* non-zero byte on; an all-zero (or empty) array is refused
uint8ArrayToMPI(bin) ==
  LET bitSize == uint8ArrayBitLength(bin) IN
  IF bitSize = 0 THEN [err |-> "Zero MPI", bytes |-> <<>>]
  ELSE [err |-> "ok",
        bytes |-> << bitSize \div 256, bitSize % 256 >>
                  \o SubarrayFrom(bin, Len(bin) - ((bitSize + 7) \div 8))]

\* util.readMPI: reads the 2-byte bit length L, then ceil(L/8) bytes
readMPI(bytes) ==
  IF Len(bytes) < 2 THEN [err |-> "Input array too short", val |-> <<>>]
  ELSE LET bits == bytes[1] * 256 + bytes[2]
           bytelen == (bits + 7) \div 8
       IN IF Len(bytes) < 2 + bytelen
          THEN [err |-> "Input array too short", val |-> <<>>]
          ELSE [err |-> "ok", val |-> Subarray(bytes, 2, 2 + bytelen)]

\* util.readExactSubarray
readExactSubarray(bytes, begin, end) ==
  IF Len(bytes) < end THEN [err |-> "Input array too short", val |-> <<>>]
  ELSE [err |-> "ok", val |-> Subarray(bytes, begin, end)]


(***************************************************************************)
(* Registered codes (enums) and the parameters of the symmetric            *)
(* primitives.                                                             *)
(***************************************************************************)
publicKey ==
  [rsaEncryptSign |-> 1, rsaEncrypt |-> 2, rsaSign |-> 3, elgamal |-> 16,
   dsa |-> 17, ecdh |-> 18, ecdsa |-> 19, eddsaLegacy |-> 22, x25519 |-> 25,
   x448 |-> 26, ed25519 |-> 27, ed448 |-> 28, hmac |-> 101, aead |-> 102,
   pqc_mlkem_x25519 |-> 105, pqc_mldsa_ed25519 |-> 107]

symmetric ==
  [plaintext |-> 0, idea |-> 1, tripledes |-> 2, cast5 |-> 3, blowfish |-> 4,
   aes128 |-> 7, aes192 |-> 8, aes256 |-> 9, twofish |-> 10]

\* the values of enums.publicKey
publicKeyValues == {publicKey[f] : f \in DOMAIN publicKey}

\* the values of enums.symmetric
symmetricValues == {0, 1, 2, 3, 4, 7, 8, 9, 10}

aeadEnum == [eax |-> 1, ocb |-> 2, gcm |-> 3]

s2kEnum == [simple |-> 0, salted |-> 1, iterated |-> 3, argon2 |-> 4, gnu |-> 101]

\* writeTag(enums.packet.secretKey): the new-format tag octet of tag 5
secretKeyTag == << 192 + 5 >>

\* getCipherParams(algo): key and block size, or the unsupported-cipher error
getCipherParams(algo) ==
  CASE algo \in {7}     -> [err |-> "ok", keySize |-> 16, blockSize |-> 16]
    [] algo \in {8}     -> [err |-> "ok", keySize |-> 24, blockSize |-> 16]
    [] algo \in {9, 10} -> [err |-> "ok", keySize |-> 32, blockSize |-> 16]
    [] algo \in {3, 4}  -> [err |-> "ok", keySize |-> 16, blockSize |-> 8]
    [] algo \in {2}     -> [err |-> "ok", keySize |-> 24, blockSize |-> 8]
    [] OTHER            -> [err |-> "Unsupported cipher algorithm", keySize |-> 0, blockSize |-> 0]

\* cipherMode.getAEADMode(aead): nonce and tag length, or the unsupported-mode error
getAEADMode(mode) ==
  CASE mode = 1 -> [err |-> "ok", ivLength |-> 16, tagLength |-> 16]
    [] mode = 2 -> [err |-> "ok", ivLength |-> 15, tagLength |-> 16]
    [] mode = 3 -> [err |-> "ok", ivLength |-> 12, tagLength |-> 16]
    [] OTHER    -> [err |-> "Unsupported AEAD mode", ivLength |-> 0, tagLength |-> 0]

(***************************************************************************)
(* Stand-ins for the library primitives.                                   *)
(***************************************************************************)
\* getRandomBytes(n), the generator returning r
getRandomBytes(n, r) == Fill(n, r)

\* computeDigest(enums.hash.sha1, data): 20 bytes that depend on the
\* content and the length of data
computeDigestSha1(data) ==
  [j \in 1..20 |-> (2 * Sum(data) + Len(data) + j) % 256]

\* a byte-wise stream cipher keyed by key and iv
shift(bytes, k) == [i \in 1..Len(bytes) |-> (bytes[i] + k) % 256]
unshift(bytes, k) == [i \in 1..Len(bytes) |-> (bytes[i] + 256 - (k % 256)) % 256]

\* cipherMode.cfb.encrypt / decrypt
cfbEncrypt(key, plaintext, iv) == shift(plaintext, key + Sum(iv))
cfbDecrypt(key, ciphertext, iv) == unshift(ciphertext, key + Sum(iv))

\* the authentication tag of an AEAD mode over key, nonce, associated data
\* and plaintext
aeadTag(key, plaintext, iv, adata) ==
  [j \in 1..16 |->
     (2 * Sum(plaintext) + Len(plaintext) + key + Sum(iv) + Sum(adata) + Len(adata) + j) % 256]

\* modeInstance.encrypt(plaintext, iv, adata): ciphertext followed by the tag
aeadEncrypt(key, plaintext, iv, adata) ==
  shift(plaintext, key + Sum(iv)) \o aeadTag(key, plaintext, iv, adata)

\* modeInstance.decrypt(ciphertext, iv, adata)
aeadDecrypt(key, ciphertext, iv, adata) ==
  IF Len(ciphertext) < 16
  THEN [err |-> "Invalid AEAD ciphertext", val |-> <<>>]
  ELSE LET pt == unshift(DropLast(ciphertext, 16), key + Sum(iv)) IN
       IF aeadTag(key, pt, iv, adata) = TakeLast(ciphertext, 16)
       THEN [err |-> "ok", val |-> pt]
       ELSE [err |-> "Authentication tag mismatch", val |-> <<>>]

\* s2k.produceKey(passphrase, keySize): a key that depends on the S2K type,
\* the salt and the passphrase
s2kTypeCode(type) ==
  CASE type = "simple" -> 0 [] type = "salted" -> 1 [] type = "iterated" -> 3
    [] type = "argon2" -> 4 [] OTHER -> 5

s2kProduceKey(s2k, passphrase) ==
  LET saltByte == IF s2k.salt = <<>> THEN 0 ELSE s2k.salt[1] IN
  (1 + (passphrase % 8) + 8 * (saltByte % 8) + 64 * (s2kTypeCode(s2k.type) % 4)) % 256

\* computeHKDF(sha256, key, salt = "", info, keySize)
computeHKDF(key, info) == (key + Sum(info) + 1) % 256

(***************************************************************************)
(* S2K specifiers (type/s2k).                                              *)
(***************************************************************************)
\* newS2KFromConfig(config) followed by generateSalt(), the generator
\* returning r
newS2KFromConfig(s2kType, r) ==
  IF s2kType = "argon2"
  THEN [type |-> "argon2", salt |-> getRandomBytes(16, r)]
  ELSE [type |-> "iterated", salt |-> getRandomBytes(8, r)]

\* the gnu-dummy specifier makeDummy() builds
gnuDummyS2K == [type |-> "gnu-dummy", salt |-> <<>>]

\* s2k.write()
s2kWrite(s2k) ==
  CASE s2k.type = "gnu-dummy" -> << 101, 0, 71, 78, 85, 1 >>
    [] s2k.type = "simple"    -> << 0, 8 >>
    [] s2k.type = "salted"    -> << 1, 8 >> \o s2k.salt
    [] s2k.type = "iterated"  -> << 3, 8 >> \o s2k.salt \o << 224 >>
    [] s2k.type = "argon2"    -> << 4 >> \o s2k.salt \o << 3, 4, 16 >>

\* newS2KFromType(type) followed by s2k.read(bytes): the specifier and the
\* number of bytes read after the type octet, or the error for an unknown
\* type
s2kRead(type, bytes) ==
  CASE type = 0 -> [err |-> "ok", s2k |-> [type |-> "simple", salt |-> <<>>], read |-> 1]
    [] type = 1 -> [err |-> "ok", s2k |-> [type |-> "salted", salt |-> Subarray(bytes, 1, 9)], read |-> 9]
    [] type = 3 -> [err |-> "ok", s2k |-> [type |-> "iterated", salt |-> Subarray(bytes, 1, 9)], read |-> 10]
    [] type = 4 -> [err |-> "ok", s2k |-> [type |-> "argon2", salt |-> Subarray(bytes, 0, 16)], read |-> 19]
    [] type = 101 ->
         IF Subarray(bytes, 1, 4) = << 71, 78, 85 >> /\ At(bytes, 4) = 1
         THEN [err |-> "ok", s2k |-> gnuDummyS2K, read |-> 5]
         ELSE [err |-> "UnsupportedError", s2k |-> gnuDummyS2K, read |-> 0]
    [] OTHER -> [err |-> "UnsupportedError", s2k |-> gnuDummyS2K, read |-> 0]

(***************************************************************************)
(* Parameter records and their (de)serialization (crypto.js).  A record    *)
(* is the sequence of its fields in insertion order, each a name and a     *)
(* byte array.                                                             *)
(***************************************************************************)
Param(n, v) == [name |-> n, val |-> v]

\* the value of field n of a record that has it
Field(params, n) == params[CHOOSE i \in 1..Len(params) : params[i].name = n].val

HasField(params, n) == \E i \in 1..Len(params) : params[i].name = n

\* two records hold the same fields with the same bytes, in any order
SameParams(a, b) ==
  /\ {a[i].name : i \in 1..Len(a)} = {b[i].name : i \in 1..Len(b)}
  /\ Len(a) = Len(b)
  /\ \A i \in 1..Len(a) : Field(b, a[i].name) = a[i].val

\* elliptic.eddsa.getPayloadSize / getCurvePayloadSize for the native curves
getCurvePayloadSize(algo) ==
  CASE algo = 27 -> [err |-> "ok", size |-> 32]
    [] algo = 25 -> [err |-> "ok", size |-> 32]
    [] algo = 28 -> [err |-> "ok", size |-> 57]
    [] algo = 26 -> [err |-> "ok", size |-> 56]
    [] OTHER     -> [err |-> "Unknown elliptic algo", size |-> 0]

algosWithNativeRepresentation == {27, 25, 28, 26, 102, 101, 105, 107}

\* a serialization that leaves no field out
excludedFields_none(algo) == {}

\* excludedFields[algo] of serializeParams
excludedFields(algo) ==
  CASE algo = 105 -> {"mlkemSecretKey"}
    [] algo = 107 -> {"mldsaSecretKey"}
    [] OTHER      -> {}

\* the parameters that are objects with a write() method and no Uint8Array:
\* the curve OID, the KDF parameters and the cipher or hash of a symmetric
\* key; a record holds the bytes that identify them
objectFields == {"oid", "kdfParams", "cipher"}

\* param.write() of these: the OID behind its length, the KDF parameters
\* behind their length and the reserved octet 1, the code of the enum
paramWrite(name, val) ==
  CASE name = "oid"       -> << Len(val) >> \o val
    [] name = "kdfParams" -> << 3, 1 >> \o val
    [] OTHER              -> val

\* serializeParams(algo, params), params an object: the fields from the
\* i-th on
RECURSIVE serializeFrom(_, _, _)
serializeFrom(algo, params, i) ==
  IF i > Len(params) THEN [err |-> "ok", bytes |-> <<>>]
  ELSE With(IF params[i].name \in excludedFields(algo)
            THEN [err |-> "ok", bytes |-> <<>>]
            ELSE IF params[i].name \in objectFields
            THEN [err |-> "ok", bytes |-> paramWrite(params[i].name, params[i].val)]
            ELSE IF algo \in algosWithNativeRepresentation
            THEN [err |-> "ok", bytes |-> params[i].val]
            ELSE uint8ArrayToMPI(params[i].val),
            LAMBDA one :
       IF one.err # "ok" THEN one
       ELSE With(serializeFrom(algo, params, i + 1), LAMBDA rest :
              IF rest.err # "ok" THEN rest
              ELSE [err |-> "ok", bytes |-> one.bytes \o rest.bytes]))

\* serializeParams(algo, params), params possibly null (Object.keys(null)
\* is a TypeError)
serializeParams(algo, params) ==
  IF IsNull(params) THEN [err |-> "TypeError", bytes |-> <<>>]
  ELSE serializeFrom(algo, Val(params), 1)

\* reads the MPIs named names, one after the other
RECURSIVE readMPIs(_, _, _)
readMPIs(bytes, names, read) ==
  IF names = <<>> THEN [err |-> "ok", read |-> read, params |-> <<>>]
  ELSE With(readMPI(SubarrayFrom(bytes, read)), LAMBDA m :
       IF m.err # "ok" THEN [err |-> m.err, read |-> read, params |-> <<>>]
       ELSE With(readMPIs(bytes, Tail(names), read + Len(m.val) + 2), LAMBDA rest :
              [err |-> rest.err, read |-> rest.read,
               params |-> << Param(names[1], m.val) >> \o rest.params]))

\* a native parameter of the curve's payload size
readNative(algo, bytes, name) ==
  With(readExactSubarray(bytes, 0, getCurvePayloadSize(algo).size), LAMBDA v :
    [err |-> v.err, read |-> Len(v.val), params |-> << Param(name, v.val) >>])

\* the curves with an OID (enums.curve) and the bytes of their OID
curveOIDs ==
  [nistP256         |-> << 42, 134, 72, 206, 61, 3, 1, 7 >>,
   nistP384         |-> << 43, 129, 4, 0, 34 >>,
   ed25519Legacy    |-> << 43, 6, 1, 4, 1, 218, 71, 15, 1 >>,
   curve25519Legacy |-> << 43, 6, 1, 4, 1, 151, 85, 1, 5, 1 >>]

\* oid.getName(), "unknown" standing for the error it throws
oidGetName(oid) ==
  IF \E n \in DOMAIN curveOIDs : curveOIDs[n] = oid
  THEN CHOOSE n \in DOMAIN curveOIDs : curveOIDs[n] = oid
  ELSE "unknown"

\* new CurveWithOID(oid).payloadSize
curvePayloadSize(oid) ==
  CASE oidGetName(oid) = "unknown"  -> [err |-> "Unknown curve", size |-> 0]
    [] oidGetName(oid) = "nistP384" -> [err |-> "ok", size |-> 48]
    [] OTHER                        -> [err |-> "ok", size |-> 32]

\* getHashByteLength(algo)
getHashByteLength(algo) ==
  CASE algo = 1  -> [err |-> "ok", size |-> 16]
    [] algo \in {2, 3} -> [err |-> "ok", size |-> 20]
    [] algo \in {8, 12} -> [err |-> "ok", size |-> 32]
    [] algo = 9  -> [err |-> "ok", size |-> 48]
    [] algo \in {10, 14} -> [err |-> "ok", size |-> 64]
    [] algo = 11 -> [err |-> "ok", size |-> 28]
    [] OTHER     -> [err |-> "Invalid hash algorithm.", size |-> 0]

\* one field of a parameter record as the parsers read it: an MPI, an MPI
\* left-padded to size, exactly size bytes, at most size bytes
\* (bytes.subarray), a curve OID, the OID of Ed25519Legacy, KDF parameters
\* or a one-octet enum
FieldSpec(name, kind, size) == [name |-> name, kind |-> kind, size |-> size]

\* reads one field at offset read: its value and the number of bytes by
\* which read advances
readField(bytes, read, field) ==
  CASE field.kind = "mpi" ->
         With(readMPI(SubarrayFrom(bytes, read)), LAMBDA m :
           [err |-> m.err, val |-> m.val, len |-> Len(m.val) + 2])
    [] field.kind = "mpiPad" ->
         With(readMPI(SubarrayFrom(bytes, read)), LAMBDA m :
           IF m.err # "ok" THEN [err |-> m.err, val |-> <<>>, len |-> 0]
           ELSE IF Len(m.val) > field.size
           THEN [err |-> "RangeError", val |-> <<>>, len |-> 0]
           ELSE [err |-> "ok", val |-> Fill(field.size - Len(m.val), 0) \o m.val,
                 len |-> Len(m.val) + 2])
    [] field.kind = "exact" ->
         With(readExactSubarray(bytes, read, read + field.size), LAMBDA v :
           [err |-> v.err, val |-> v.val, len |-> Len(v.val)])
    [] field.kind = "sub" ->
         [err |-> "ok", val |-> Subarray(bytes, read, read + field.size), len |-> field.size]
    [] field.kind \in {"oid", "oidEd25519Legacy"} ->
         IF Len(bytes) < 1 \/ Len(bytes) < 1 + bytes[1]
         THEN [err |-> "Invalid oid", val |-> <<>>, len |-> 0]
         ELSE With(Subarray(bytes, 1, 1 + bytes[1]), LAMBDA oid :
                IF oidGetName(oid) = "unknown"
                THEN [err |-> "UnsupportedError", val |-> oid, len |-> 0]
                ELSE IF field.kind = "oidEd25519Legacy" /\ oidGetName(oid) # "ed25519Legacy"
                THEN [err |-> "Unexpected OID for eddsaLegacy", val |-> oid, len |-> 0]
                ELSE [err |-> "ok", val |-> oid, len |-> 1 + Len(oid)])
    [] field.kind = "kdf" ->
         IF Len(bytes) < read + 4 \/ bytes[read + 1] # 3 \/ bytes[read + 2] # 1
         THEN [err |-> "UnsupportedError", val |-> <<>>, len |-> 0]
         ELSE [err |-> "ok", val |-> Subarray(bytes, read + 2, read + 4), len |-> 4]
    [] field.kind = "short" ->
         \* ShortByteString.read: a length octet and as many bytes as are there
         IF At(bytes, read) = Undefined THEN [err |-> "ok", val |-> <<>>, len |-> 1]
         ELSE With(Subarray(bytes, read + 1, read + 1 + At(bytes, read)), LAMBDA v :
                [err |-> "ok", val |-> v, len |-> 1 + Len(v)])
    [] field.kind = "enum" ->
         IF Len(bytes) < 1 THEN [err |-> "Invalid enum value.", val |-> <<>>, len |-> 0]
         ELSE [err |-> "ok", val |-> << bytes[1] >>, len |-> 1]

\* reads the fields one after the other from offset read on
RECURSIVE readFields(_, _, _)
readFields(bytes, fields, read) ==
  IF fields = <<>> THEN [err |-> "ok", read |-> read, params |-> <<>>]
  ELSE With(readField(bytes, read, fields[1]), LAMBDA f :
       IF f.err # "ok" THEN [err |-> f.err, read |-> read, params |-> <<>>]
       ELSE With(readFields(bytes, Tail(fields), read + f.len), LAMBDA rest :
              [err |-> rest.err, read |-> rest.read,
               params |-> IF rest.err = "ok"
                          THEN << Param(fields[1].name, f.val) >> \o rest.params
                          ELSE <<>>]))

\* postQuantum.kem.mlkemExpandSecretSeed / postQuantum.signature
\* .mldsaExpandSecretSeed: the expanded secret key, a function of the seed
expandSecretSeed(seed) == shift(seed, 1) \o shift(seed, 2)

\* parsePublicKeyParams(algo, bytes)
parsePublicKeyParams(algo, bytes) ==
  CASE algo \in {1, 2, 3} -> readMPIs(bytes, << "n", "e" >>, 0)
    [] algo = 17 -> readMPIs(bytes, << "p", "q", "g", "y" >>, 0)
    [] algo = 16 -> readMPIs(bytes, << "p", "g", "y" >>, 0)
    [] algo = 19 ->
         readFields(bytes, << FieldSpec("oid", "oid", 0), FieldSpec("Q", "mpi", 0) >>, 0)
    [] algo = 22 ->
         readFields(bytes, << FieldSpec("oid", "oidEd25519Legacy", 0),
                              FieldSpec("Q", "mpiPad", 33) >>, 0)
    [] algo = 18 ->
         readFields(bytes, << FieldSpec("oid", "oid", 0), FieldSpec("Q", "mpi", 0),
                              FieldSpec("kdfParams", "kdf", 0) >>, 0)
    [] algo \in {27, 28, 25, 26} -> readNative(algo, bytes, "A")
    [] algo \in {101, 102} ->
         readFields(bytes, << FieldSpec("cipher", "enum", 0),
                              FieldSpec("digest", "sub", getHashByteLength(8).size) >>, 0)
    [] algo = 105 ->
         readFields(bytes, << FieldSpec("eccPublicKey", "exact", getCurvePayloadSize(25).size),
                              FieldSpec("mlkemPublicKey", "exact", 1184) >>, 0)
    [] algo = 107 ->
         readFields(bytes, << FieldSpec("eccPublicKey", "exact", getCurvePayloadSize(27).size),
                              FieldSpec("mldsaPublicKey", "exact", 1952) >>, 0)
    [] OTHER -> [err |-> "UnsupportedError", read |-> 0, params |-> <<>>]

\* parsePrivateKeyParams(), lines 286-300: the secret scalar of a curve
\* with an OID, left-padded to the payload size of the curve
parseCurveSecret(algo, bytes, publicParams, name) ==
  IF IsNull(publicParams) \/ ~HasField(Val(publicParams), "oid")
  THEN [err |-> "TypeError", read |-> 0, params |-> <<>>]
  ELSE With(curvePayloadSize(Field(Val(publicParams), "oid")), LAMBDA payloadSize :
         IF payloadSize.err # "ok" THEN [err |-> payloadSize.err, read |-> 0, params |-> <<>>]
         ELSE IF algo = 22 /\ oidGetName(Field(Val(publicParams), "oid")) # "ed25519Legacy"
         THEN [err |-> "Unexpected OID for eddsaLegacy", read |-> 0, params |-> <<>>]
         ELSE readFields(bytes, << FieldSpec(name, "mpiPad", payloadSize.size) >>, 0))

\* parsePrivateKeyParams(), lines 312-326: the key of a symmetric algorithm
parseSymmetricSecret(algo, bytes, publicParams) ==
  IF IsNull(publicParams) \/ ~HasField(Val(publicParams), "cipher")
  THEN [err |-> "TypeError", read |-> 0, params |-> <<>>]
  ELSE With(IF algo = 101 THEN getHashByteLength(At(Field(Val(publicParams), "cipher"), 0))
            ELSE [err |-> getCipherParams(At(Field(Val(publicParams), "cipher"), 0)).err,
                  size |-> getCipherParams(At(Field(Val(publicParams), "cipher"), 0)).keySize],
            LAMBDA keySize :
         IF keySize.err # "ok" THEN [err |-> keySize.err, read |-> 0, params |-> <<>>]
         ELSE readFields(bytes, << FieldSpec("hashSeed", "sub", 32),
                                   FieldSpec("keyMaterial", "sub", keySize.size) >>, 0))

\* parsePrivateKeyParams(), lines 327-340: the composite keys; the expanded
\* secret key is derived from the seed and stored before it
parseCompositeSecret(bytes, eccSize, seedName, seedSize, expandedName) ==
  With(readFields(bytes, << FieldSpec("eccSecretKey", "exact", eccSize),
                            FieldSpec(seedName, "exact", seedSize) >>, 0),
       LAMBDA f :
    IF f.err # "ok" THEN f
    ELSE [err |-> "ok", read |-> f.read,
          params |-> << f.params[1],
                        Param(expandedName, expandSecretSeed(f.params[2].val)),
                        f.params[2] >>])

\* parsePrivateKeyParams(algo, bytes, publicParams)
parsePrivateKeyParams(algo, bytes, publicParams) ==
  CASE algo \in {1, 2, 3} -> readMPIs(bytes, << "d", "p", "q", "u" >>, 0)
    [] algo \in {17, 16} -> readMPIs(bytes, << "x" >>, 0)
    [] algo \in {19, 18} -> parseCurveSecret(algo, bytes, publicParams, "d")
    [] algo = 22 -> parseCurveSecret(algo, bytes, publicParams, "seed")
    [] algo \in {27, 28} -> readNative(algo, bytes, "seed")
    [] algo \in {25, 26} -> readNative(algo, bytes, "k")
    [] algo \in {101, 102} -> parseSymmetricSecret(algo, bytes, publicParams)
    [] algo = 105 ->
         parseCompositeSecret(bytes, getCurvePayloadSize(25).size, "mlkemSeed", 64,
                              "mlkemSecretKey")
    [] algo = 107 ->
         parseCompositeSecret(bytes, getCurvePayloadSize(27).size, "mldsaSeed", 32,
                              "mldsaSecretKey")
    [] OTHER -> [err |-> "UnsupportedError", read |-> 0, params |-> <<>>]

(***************************************************************************)
(* Key generation and validation.  The public-key primitives are stand-ins:*)
(* the public parameters are a function of the private ones, and           *)
(* validation recomputes it.                                               *)
(***************************************************************************)
\* the public parameters that belong to private parameters priv
derivePublic(algo, priv) ==
  CASE algo \in {1, 2, 3} ->
         << Param("n", << (Field(priv, "p")[1] * Field(priv, "q")[1]) % 256 >>),
            Param("e", << 1, 0, 1 >>) >>
    [] algo \in {27, 28} ->
         << Param("A", [i \in 1..Len(Field(priv, "seed")) |-> (Field(priv, "seed")[i] + 1) % 256]) >>
    [] algo \in {25, 26} ->
         << Param("A", [i \in 1..Len(Field(priv, "k")) |-> (Field(priv, "k")[i] + 1) % 256]) >>

\* generateParams(algo, bits, oid, symmetric), the generator returning r
generateParams(algo, r) ==
  CASE algo \in {1, 2, 3} ->
         LET priv == << Param("d", << 1, r >>), Param("p", << 2 + r >>),
                        Param("q", << 7 >>), Param("u", << r >>) >>
         IN [err |-> "ok", privateParams |-> priv, publicParams |-> derivePublic(algo, priv)]
    [] algo = 27 ->
         LET priv == << Param("seed", << 0 >> \o getRandomBytes(31, r)) >>
         IN [err |-> "ok", privateParams |-> priv, publicParams |-> derivePublic(algo, priv)]
    [] algo \in {16, 17} ->
         [err |-> "Unsupported algorithm for key generation.", privateParams |-> <<>>, publicParams |-> <<>>]
    [] OTHER ->
         [err |-> "Unknown public key algorithm.", privateParams |-> <<>>, publicParams |-> <<>>]

\* createSymmetricParams(key, algo), the generator returning r
createSymmetricParams(key, algo, r) ==
  [err |-> "ok",
   privateParams |-> << Param("hashSeed", getRandomBytes(32, r)), Param("keyMaterial", key) >>,
   publicParams |-> << Param("cipher", << algo >>),
                       Param("digest", shift(getRandomBytes(32, r), 3)) >>]

\* elliptic.generate(oid): a secret of the payload size of the curve, with
\* a leading zero byte, and the public point behind its prefix octet
ellipticGenerate(oid, r) ==
  With(curvePayloadSize(oid).size, LAMBDA size :
    [secret |-> << 0 >> \o getRandomBytes(size - 1, r),
     Q |-> IF oidGetName(oid) \in {"ed25519Legacy", "curve25519Legacy"}
           THEN << 64 >> \o getRandomBytes(size, r + 1)
           ELSE << 4 >> \o getRandomBytes(2 * size, r + 1)])

\* generateParams(algo, bits, oid, symmetric), the generator returning r:
\* the algorithms besides RSA and Ed25519
generateParamsWith(algo, oid, symmetricAlgo, r) ==
  CASE algo = 19 ->
         [err |-> "ok",
          privateParams |-> << Param("d", ellipticGenerate(oid, r).secret) >>,
          publicParams |-> << Param("oid", oid), Param("Q", ellipticGenerate(oid, r).Q) >>]
    [] algo = 22 ->
         [err |-> "ok",
          privateParams |-> << Param("seed", ellipticGenerate(oid, r).secret) >>,
          publicParams |-> << Param("oid", oid), Param("Q", ellipticGenerate(oid, r).Q) >>]
    [] algo = 18 ->
         [err |-> "ok",
          privateParams |-> << Param("d", ellipticGenerate(oid, r).secret) >>,
          publicParams |-> << Param("oid", oid), Param("Q", ellipticGenerate(oid, r).Q),
                              Param("kdfParams", << 8, symmetric.aes128 >>) >>]
    [] algo = 28 ->
         \* elliptic.eddsa.generate has no case for Ed448
         [err |-> "Unsupported EdDSA algorithm", privateParams |-> <<>>, publicParams |-> <<>>]
    [] algo \in {25, 26} ->
         With(<< Param("k", << 0 >> \o getRandomBytes(getCurvePayloadSize(algo).size - 1, r)) >>,
              LAMBDA priv :
           [err |-> "ok", privateParams |-> priv, publicParams |-> derivePublic(algo, priv)])
    [] algo = 101 ->
         IF getHashByteLength(symmetricAlgo).err # "ok"
         THEN [err |-> getHashByteLength(symmetricAlgo).err, privateParams |-> <<>>,
               publicParams |-> <<>>]
         ELSE createSymmetricParams(getRandomBytes(getHashByteLength(symmetricAlgo).size, r),
                                    symmetricAlgo, r)
    [] algo = 102 ->
         IF getCipherParams(symmetricAlgo).err # "ok"
         THEN [err |-> getCipherParams(symmetricAlgo).err, privateParams |-> <<>>,
               publicParams |-> <<>>]
         ELSE createSymmetricParams(getRandomBytes(getCipherParams(symmetricAlgo).keySize, r),
                                    symmetricAlgo, r)
    [] algo = 105 ->
         [err |-> "ok",
          privateParams |-> << Param("eccSecretKey", << 0 >> \o getRandomBytes(31, r)),
                               Param("mlkemSeed", getRandomBytes(64, r)),
                               Param("mlkemSecretKey", expandSecretSeed(getRandomBytes(64, r))) >>,
          publicParams |-> << Param("eccPublicKey", getRandomBytes(32, r + 1)),
                              Param("mlkemPublicKey", getRandomBytes(1184, r + 2)) >>]
    [] algo = 107 ->
         [err |-> "ok",
          privateParams |-> << Param("eccSecretKey", << 0 >> \o getRandomBytes(31, r)),
                               Param("mldsaSeed", getRandomBytes(32, r)),
                               Param("mldsaSecretKey", expandSecretSeed(getRandomBytes(32, r))) >>,
          publicParams |-> << Param("eccPublicKey", getRandomBytes(32, r + 1)),
                              Param("mldsaPublicKey", getRandomBytes(1952, r + 2)) >>]
    [] OTHER -> generateParams(algo, r)

\* the validateParams of the primitives behind the other algorithms: the
\* public parameters are those the generator stand-ins derive from the
\* private ones; eddsa.validateParams has no case for Ed448, and there is
\* no generator for DSA and ElGamal keys
keyPairMatches(algo, pub, priv) ==
  CASE algo \in {18, 19} ->
         HasField(pub, "Q") /\ HasField(priv, "d")
           /\ At(Field(pub, "Q"), 1) = (At(Field(priv, "d"), 1) + 1) % 256
    [] algo = 22 ->
         HasField(pub, "Q") /\ HasField(priv, "seed")
           /\ At(Field(pub, "Q"), 1) = (At(Field(priv, "seed"), 1) + 1) % 256
    [] algo \in {25, 26} ->
         HasField(priv, "k") /\ SameParams(pub, derivePublic(algo, priv))
    [] algo = 101 ->
         /\ getHashByteLength(Field(pub, "cipher")[1]).err = "ok"
         /\ getHashByteLength(Field(pub, "cipher")[1]).size = Len(Field(priv, "keyMaterial"))
         /\ Field(pub, "digest") = shift(Field(priv, "hashSeed"), 3)
    [] algo = 102 ->
         /\ getCipherParams(Field(pub, "cipher")[1]).err = "ok"
         /\ getCipherParams(Field(pub, "cipher")[1]).keySize = Len(Field(priv, "keyMaterial"))
         /\ Field(pub, "digest") = shift(Field(priv, "hashSeed"), 3)
    [] algo \in {105, 107} ->
         At(Field(pub, "eccPublicKey"), 0) = (At(Field(priv, "eccSecretKey"), 1) + 1) % 256
    [] OTHER -> FALSE

\* validateParams(algo, publicParams, privateParams)
validateParams(algo, publicParams, privateParams) ==
  IF IsNull(publicParams) \/ IsNull(privateParams)
  THEN [err |-> "Missing key parameters", valid |-> FALSE]
  ELSE CASE algo \in {1, 2, 3} ->
              IF Field(Val(privateParams), "p") = <<>> \/ Field(Val(privateParams), "q") = <<>>
              THEN [err |-> "ok", valid |-> FALSE]
              ELSE [err |-> "ok", valid |-> SameParams(Val(publicParams), derivePublic(algo, Val(privateParams)))]
         [] algo \in {27} ->
              [err |-> "ok", valid |-> SameParams(Val(publicParams), derivePublic(algo, Val(privateParams)))]
         [] algo \in {16, 17, 18, 19, 22, 25, 26, 28, 101, 102, 105, 107} ->
              [err |-> "ok", valid |-> keyPairMatches(algo, Val(publicParams), Val(privateParams))]
         [] OTHER -> [err |-> "Unknown public key algorithm.", valid |-> FALSE]

(***************************************************************************)
(* Signatures (signature.js).  The signing primitives are stand-ins: a     *)
(* signature is a function of the digest and of the public parameters,     *)
(* and verification recomputes it.                                         *)
(***************************************************************************)
\* util.leftPad(bytes, length)
leftPad(bytes, length) ==
  IF Len(bytes) >= length THEN bytes ELSE Fill(length - Len(bytes), 0) \o bytes

\* rsa.sign, dsa.sign, elliptic.ecdsa.sign, elliptic.eddsaLegacy.sign,
\* elliptic.eddsa.sign, hmac.sign and postQuantum.signature.sign: the named
\* signature parameters over the digest hashed
signatureOf(algo, publicParams, hashed) ==
  With(<< 1 + Len(publicParams) >> \o hashed, LAMBDA t :
    CASE algo \in {1, 2, 3}   -> << Param("s", t) >>
      [] algo \in {17, 19, 22} -> << Param("r", t), Param("s", shift(t, 1)) >>
      [] algo = 27            -> << Param("RS", Fill(64, t[2])) >>
      [] algo = 101           -> << Param("mac", t) >>
      [] algo = 107           -> << Param("eccSignature", Fill(64, t[2])),
                                    Param("mldsaSignature", Fill(3309, t[2])) >>)

\* the error of comparing the digest size of hashAlgo with that of the
\* hash minimum: "ok" when it is large enough
digestSizeCheck(hashAlgo, minimum, message) ==
  IF getHashByteLength(hashAlgo).err # "ok" THEN getHashByteLength(hashAlgo).err
  ELSE IF minimum.err # "ok" THEN minimum.err
  ELSE IF getHashByteLength(hashAlgo).size < minimum.size THEN message
  ELSE "ok"

\* elliptic.eddsa.getPreferredHashAlgo(algo), then getHashByteLength
preferredHashByteLength(algo) ==
  IF algo = 27 THEN getHashByteLength(8)
  ELSE [err |-> "Unknown EdDSA algo", size |-> 0]

\* the digest-size guard sign and verify share
hashGuard(algo, hashAlgo) ==
  CASE algo = 22 ->
         digestSizeCheck(hashAlgo, getHashByteLength(8),
                         "Hash algorithm too weak for EdDSALegacy.")
    [] algo \in {27, 28} ->
         digestSizeCheck(hashAlgo, preferredHashByteLength(algo),
                         "Hash algorithm too weak for EdDSA.")
    [] algo = 107 ->
         digestSizeCheck(hashAlgo, [err |-> "ok", size |-> 32],
                         "Unexpected hash algorithm for PQC signature: digest size too short")
    [] OTHER -> "ok"

\* parseSignatureParams(algo, signature); params holds signatureParams
parseSignatureParams(algo, signature) ==
  CASE algo \in {1, 2, 3} -> readMPIs(signature, << "s" >>, 0)
    [] algo \in {17, 19, 22} -> readMPIs(signature, << "r", "s" >>, 0)
    [] algo \in {27, 28} ->
         IF getCurvePayloadSize(algo).err # "ok"
         THEN [err |-> getCurvePayloadSize(algo).err, read |-> 0, params |-> <<>>]
         ELSE readFields(signature,
                         << FieldSpec("RS", "exact", 2 * getCurvePayloadSize(algo).size) >>, 0)
    [] algo = 101 -> readFields(signature, << FieldSpec("mac", "short", 0) >>, 0)
    [] algo = 107 ->
         readFields(signature,
                    << FieldSpec("eccSignature", "exact", 2 * getCurvePayloadSize(27).size),
                       FieldSpec("mldsaSignature", "exact", 3309) >>, 0)
    [] OTHER -> [err |-> "UnsupportedError", read |-> 0, params |-> <<>>]

\* the fields verify destructures from the signature of algo
signatureFields(algo) ==
  CASE algo \in {1, 2, 3}     -> {"s"}
    [] algo \in {17, 19, 22} -> {"r", "s"}
    [] algo \in {27, 28}     -> {"RS"}
    [] algo = 101            -> {"mac"}
    [] algo = 107            -> {"eccSignature", "mldsaSignature"}
    [] OTHER                 -> {}

\* verify(algo, hashAlgo, signature, publicParams, privateParams, data,
\* hashed)
verify(algo, hashAlgo, signature, publicParams, privateParams, hashed) ==
  IF algo \notin {1, 2, 3, 17, 19, 22, 27, 28, 101, 107}
  THEN [err |-> "Unknown signature algorithm.", valid |-> FALSE]
  ELSE IF hashGuard(algo, hashAlgo) # "ok"
  THEN [err |-> hashGuard(algo, hashAlgo), valid |-> FALSE]
  ELSE IF algo = 101 /\ IsNull(privateParams)
  THEN [err |-> "Cannot verify HMAC signature with symmetric key missing private parameters",
        valid |-> FALSE]
  ELSE IF IsNull(publicParams) \/ \E f \in signatureFields(algo) : ~HasField(signature, f)
  THEN [err |-> "TypeError", valid |-> FALSE]
  ELSE [err |-> "ok",
        valid |-> \A f \in signatureFields(algo) :
                    \E size \in {Len(Field(signatureOf(algo, Val(publicParams), hashed), f))} :
                      leftPad(Field(signature, f), size)
                        = Field(signatureOf(algo, Val(publicParams), hashed), f)]

\* sign(algo, hashAlgo, publicKeyParams, privateKeyParams, data, hashed)
sign(algo, hashAlgo, publicKeyParams, privateKeyParams, hashed) ==
  IF IsNull(publicKeyParams) \/ IsNull(privateKeyParams)
  THEN [err |-> "Missing key parameters", signature |-> <<>>]
  ELSE IF algo = 16
  THEN [err |-> "Signing with Elgamal is not defined in the OpenPGP standard.",
        signature |-> <<>>]
  ELSE IF algo \notin {1, 2, 3, 17, 19, 22, 27, 28, 101, 107}
  THEN [err |-> "Unknown signature algorithm.", signature |-> <<>>]
  ELSE IF hashGuard(algo, hashAlgo) # "ok"
  THEN [err |-> hashGuard(algo, hashAlgo), signature |-> <<>>]
  ELSE [err |-> "ok", signature |-> signatureOf(algo, Val(publicKeyParams), hashed)]

(***************************************************************************)
(* The Secret-Key packet (secret_key.js).                                  *)
(***************************************************************************)
\* the packet after new SecretKeyPacket(), its version and algorithm set by
\* the caller
NewPacket(v, algo) ==
  [version |-> v, algorithm |-> algo, publicParams |-> Null,
   keyMaterial |-> Null, isEncrypted |-> Null, s2kUsage |-> 0, s2k |-> Null,
   symmetric |-> Null, aead |-> Null, isLegacyAEAD |-> Null,
   privateParams |-> Null, usedModernAEAD |-> Null,
   iv |-> Null, unparseableKeyMaterial |-> Null]

\* writePublicKey(): the public-key prefix of the packet
writePublicKey(pkt) ==
  With(serializeParams(pkt.algorithm, pkt.publicParams), LAMBDA params :
    [err |-> params.err, bytes |-> << pkt.version, pkt.algorithm >> \o params.bytes])

\* readPublicKey(bytes): version, algorithm, public parameters and the
\* offset of the secret part
readPublicKey(bytes) ==
  LET v == At(bytes, 0)
      algo == At(bytes, 1)
  IN IF v \notin {4, 5, 6}
     THEN [err |-> "UnsupportedError", version |-> v, algorithm |-> algo, params |-> <<>>, read |-> 0]
     ELSE With(parsePublicKeyParams(algo, SubarrayFrom(bytes, 2)), LAMBDA params :
            [err |-> params.err, version |-> v, algorithm |-> algo,
             params |-> params.params, read |-> 2 + params.read])

isDecrypted(pkt) == pkt.isEncrypted = Some(FALSE)

isDummy(pkt) == ~IsNull(pkt.s2k) /\ Val(pkt.s2k).type = "gnu-dummy"

isMissingSecretKeyMaterial(pkt) == ~IsNull(pkt.unparseableKeyMaterial) \/ isDummy(pkt)

\* read(), lines 161-193: the IV of a protected packet p, found at offset i
readIV(p, bytes, i, legacy) ==
  IF p.s2kUsage # 253 \/ legacy
  THEN With(getCipherParams(Val(p.symmetric)), LAMBDA cipher :
         IF cipher.err # "ok"
         THEN [pkt |-> p, i |-> i, err |-> cipher.err, returned |-> FALSE]
         ELSE With(Subarray(bytes, i, i + cipher.blockSize), LAMBDA iv :
                [pkt |-> [p EXCEPT !.iv = Some(iv), !.usedModernAEAD = Some(FALSE)],
                 i |-> i + Len(iv), err |-> "ok", returned |-> FALSE]))
  ELSE With(getAEADMode(Val(p.aead)), LAMBDA mode :
         IF mode.err # "ok"
         THEN [pkt |-> p, i |-> i, err |-> mode.err, returned |-> FALSE]
         ELSE With(Subarray(bytes, i, i + mode.ivLength), LAMBDA iv :
                [pkt |-> [p EXCEPT !.iv = Some(iv), !.usedModernAEAD = Some(TRUE)],
                 i |-> i + Len(iv), err |-> "ok", returned |-> FALSE]))

\* read(), lines 128-193: the optional fields, read inside the try block.
\* returned: the gnu-dummy early return; on an error i is the offset
\* reached when it was thrown
readOptionalFields(pkt, bytes, i0, parseAEADEncryptedV4KeysAsLegacy) ==
  LET usage == pkt.s2kUsage
      hasS2K == usage \in {255, 254, 253}
      iAead == i0 + 1
      iCount == IF usage = 253 THEN iAead + 1 ELSE iAead
      iType == IF pkt.version = 6 THEN iCount + 1 ELSE iCount
      iS2K == iType + 1
      legacy == usage = 253 /\ (pkt.version = 5 \/ (pkt.version = 4 /\ parseAEADEncryptedV4KeysAsLegacy))
  IN IF hasS2K
     THEN With([pkt EXCEPT !.symmetric = Some(At(bytes, i0)),
                           !.aead = IF usage = 253 THEN Some(At(bytes, iAead)) ELSE @],
               LAMBDA p1 :
          With(s2kRead(At(bytes, iType), SubarrayFrom(bytes, iS2K)), LAMBDA s2k :
            IF s2k.err # "ok"
            THEN [pkt |-> IF At(bytes, iType) = s2kEnum.gnu
                          THEN [p1 EXCEPT !.s2k = Some([type |-> "gnu", salt |-> <<>>])]
                          ELSE p1,
                  i |-> iS2K, err |-> s2k.err, returned |-> FALSE]
            ELSE IF s2k.s2k.type = "gnu-dummy"
            THEN [pkt |-> [p1 EXCEPT !.s2k = Some(s2k.s2k)], i |-> iS2K + s2k.read,
                  err |-> "ok", returned |-> TRUE]
            ELSE readIV([p1 EXCEPT !.s2k = Some(s2k.s2k), !.isLegacyAEAD = Some(legacy)],
                        bytes, iS2K + s2k.read, legacy)))
     ELSE IF Truthy(usage)
     THEN readIV([pkt EXCEPT !.symmetric = Some(usage), !.isLegacyAEAD = Some(legacy)],
                 bytes, i0, legacy)
     ELSE [pkt |-> pkt, i |-> i0, err |-> "ok", returned |-> FALSE]

\* read(), lines 213-234: the key material of an unencrypted packet
readCleartext(pkt) ==
  With(Val(pkt.keyMaterial), LAMBDA km :
  With(IF pkt.version = 6 THEN km ELSE DropLast(km, 2), LAMBDA cleartext :
    IF pkt.version # 6 /\ writeChecksum(cleartext) # TakeLast(km, 2)
    THEN [pkt |-> pkt, err |-> "Key checksum mismatch"]
    ELSE With(parsePrivateKeyParams(pkt.algorithm, cleartext, pkt.publicParams), LAMBDA parsed :
           IF parsed.err = "UnsupportedError"
           THEN [pkt |-> pkt, err |-> "UnsupportedError"]
           ELSE IF parsed.err # "ok" \/ parsed.read < Len(cleartext)
           THEN [pkt |-> pkt, err |-> "Error reading MPIs"]
           ELSE [pkt |-> [pkt EXCEPT !.privateParams = Some(parsed.params)], err |-> "ok"])))

\* read(), lines 106-211: the secret part, after the public key pk
readSecretPart(pkt, bytes, pk, parseAEADEncryptedV4KeysAsLegacy) ==
  LET start == pk.read
      usage == At(bytes, start)
      i1 == start + 1 + (IF pk.version = 5 THEN 1 ELSE 0)
                      + (IF pk.version = 6 /\ Truthy(usage) THEN 1 ELSE 0)
      skip == IF pk.version = 5 THEN 4 ELSE 0
  IN With(readOptionalFields([pkt EXCEPT !.version = pk.version, !.algorithm = pk.algorithm,
                                         !.publicParams = Some(pk.params), !.s2kUsage = usage],
                             bytes, i1, parseAEADEncryptedV4KeysAsLegacy),
          LAMBDA opt :
       IF opt.returned THEN [pkt |-> opt.pkt, err |-> "ok"]
       ELSE IF opt.err # "ok" /\ ~Truthy(usage) THEN [pkt |-> opt.pkt, err |-> opt.err]
       ELSE IF opt.err # "ok"
       THEN [pkt |-> [opt.pkt EXCEPT !.unparseableKeyMaterial = Some(SubarrayFrom(bytes, start)),
                                     !.keyMaterial = Some(SubarrayFrom(bytes, opt.i + skip)),
                                     !.isEncrypted = Some(TRUE)],
             err |-> "ok"]
       ELSE IF Truthy(usage)
       THEN [pkt |-> [opt.pkt EXCEPT !.keyMaterial = Some(SubarrayFrom(bytes, opt.i + skip)),
                                     !.isEncrypted = Some(TRUE)],
             err |-> "ok"]
       ELSE readCleartext([opt.pkt EXCEPT !.keyMaterial = Some(SubarrayFrom(bytes, opt.i + skip)),
                                          !.isEncrypted = Some(FALSE)]))

\* read(bytes, config)
read(pkt, bytes, parseAEADEncryptedV4KeysAsLegacy) ==
  With(readPublicKey(bytes), LAMBDA pk :
    IF pk.err # "ok" THEN [pkt |-> pkt, err |-> pk.err]
    ELSE readSecretPart(pkt, bytes, pk, parseAEADEncryptedV4KeysAsLegacy))

\* write(), lines 253-289: the optional fields
writeOptionalFields(pkt) ==
  LET usage == pkt.s2kUsage
      hasS2K == usage \in {255, 254, 253}
      head == IF hasS2K
              THEN << IF IsNull(pkt.symmetric) THEN 0 ELSE Val(pkt.symmetric) >>
                   \o (IF usage = 253 THEN << IF IsNull(pkt.aead) THEN 0 ELSE Val(pkt.aead) >> ELSE <<>>)
                   \o (IF pkt.version = 6 THEN << Len(s2kWrite(Val(pkt.s2k))) >> ELSE <<>>)
                   \o s2kWrite(Val(pkt.s2k))
              ELSE <<>>
  IN IF Truthy(usage) /\ IsNull(pkt.s2k) THEN [err |-> "TypeError", bytes |-> <<>>]
     ELSE IF Truthy(usage) /\ Val(pkt.s2k).type # "gnu-dummy"
     THEN IF IsNull(pkt.iv) THEN [err |-> "TypeError", bytes |-> <<>>]
          ELSE [err |-> "ok", bytes |-> head \o Val(pkt.iv)]
     ELSE [err |-> "ok", bytes |-> head]

\* write(), lines 291-306: the key material after the head of the packet;
\* the parameters of an unencrypted packet are serialized into keyMaterial
writeKeyMaterial(pkt, head) ==
  With(IF Truthy(pkt.s2kUsage) THEN [err |-> "ok", pkt |-> pkt]
       ELSE With(serializeParams(pkt.algorithm, pkt.privateParams), LAMBDA ser :
              [err |-> ser.err,
               pkt |-> IF ser.err = "ok" THEN [pkt EXCEPT !.keyMaterial = Some(ser.bytes)] ELSE pkt]),
       LAMBDA m :
    IF m.err # "ok" THEN [pkt |-> pkt, err |-> m.err, bytes |-> <<>>]
    ELSE IF IsNull(m.pkt.keyMaterial) THEN [pkt |-> m.pkt, err |-> "TypeError", bytes |-> <<>>]
    ELSE With(Val(m.pkt.keyMaterial), LAMBDA km :
           [pkt |-> m.pkt, err |-> "ok",
            bytes |-> head
                      \o (IF pkt.version = 5 THEN writeNumber4(Len(km)) ELSE <<>>)
                      \o km
                      \o (IF ~Truthy(pkt.s2kUsage) /\ pkt.version # 6
                          THEN writeChecksum(km) ELSE <<>>)]))

\* a write() that serializes the fields of a packet that holds unparseable
\* key material
write_fromFields(pkt) ==
  With(writePublicKey(pkt), LAMBDA pub :
    IF pub.err # "ok" THEN [pkt |-> pkt, err |-> pub.err, bytes |-> <<>>]
    ELSE With(pub.bytes \o << pkt.s2kUsage >>
                \o (IF pkt.version = 5 \/ (pkt.version = 6 /\ Truthy(pkt.s2kUsage))
                    THEN << 0 >> ELSE <<>>),
              LAMBDA head :
           IF isDummy(pkt) \/ ~IsNull(pkt.unparseableKeyMaterial)
           THEN [pkt |-> pkt, err |-> "ok", bytes |-> head]
           ELSE writeKeyMaterial(pkt, head)))

\* write(): the serialized packet; an unencrypted packet's keyMaterial is
\* set by the call
write(pkt) ==
  With(writePublicKey(pkt), LAMBDA pub :
    IF pub.err # "ok" THEN [pkt |-> pkt, err |-> pub.err, bytes |-> <<>>]
    ELSE IF ~IsNull(pkt.unparseableKeyMaterial)
    THEN [pkt |-> pkt, err |-> "ok", bytes |-> pub.bytes \o Val(pkt.unparseableKeyMaterial)]
    ELSE With(writeOptionalFields(pkt), LAMBDA opt :
           IF opt.err # "ok" THEN [pkt |-> pkt, err |-> opt.err, bytes |-> <<>>]
           ELSE With(pub.bytes \o << pkt.s2kUsage >>
                       \o (IF pkt.version = 5 \/ (pkt.version = 6 /\ Truthy(pkt.s2kUsage))
                           THEN << Len(opt.bytes) >> ELSE <<>>)
                       \o opt.bytes,
                     LAMBDA head :
                  IF isDummy(pkt) THEN [pkt |-> pkt, err |-> "ok", bytes |-> head]
                  ELSE writeKeyMaterial(pkt, head))))

\* a clearPrivateParams() that marks the packet encrypted and keeps the
\* record
clearPrivateParams_keepsParams(pkt) ==
  IF isMissingSecretKeyMaterial(pkt) THEN [pkt |-> pkt, err |-> "ok"]
  ELSE IF IsNull(pkt.privateParams) THEN [pkt |-> pkt, err |-> "TypeError"]
  ELSE [pkt |-> [pkt EXCEPT !.isEncrypted = Some(TRUE)], err |-> "ok"]

\* a clearPrivateParams() that drops the record without param.fill(0)
filledParams_untouched(pkt) ==
  IF isMissingSecretKeyMaterial(pkt) \/ IsNull(pkt.privateParams) THEN Null
  ELSE pkt.privateParams

\* clearPrivateParams(), lines 552-556: what the buffers of the private
\* parameters hold when the record is dropped; null when the call returns
\* or throws before it
filledParams(pkt) ==
  IF isMissingSecretKeyMaterial(pkt) \/ IsNull(pkt.privateParams) THEN Null
  ELSE Some([i \in 1..Len(Val(pkt.privateParams)) |->
               Param(Val(pkt.privateParams)[i].name,
                     Fill(Len(Val(pkt.privateParams)[i].val), 0))])

\* clearPrivateParams(): every buffer is zeroed and the record dropped
clearPrivateParams(pkt) ==
  IF isMissingSecretKeyMaterial(pkt) THEN [pkt |-> pkt, err |-> "ok"]
  ELSE IF IsNull(pkt.privateParams) THEN [pkt |-> pkt, err |-> "TypeError"]
  ELSE [pkt |-> [pkt EXCEPT !.privateParams = Null, !.isEncrypted = Some(TRUE)], err |-> "ok"]

\* a makeDummy() that keeps the unparseable key material
makeDummy_keepsUnparseable(pkt) ==
  IF isDummy(pkt) THEN [pkt |-> pkt, err |-> "ok"]
  ELSE With(IF isDecrypted(pkt) THEN clearPrivateParams(pkt) ELSE [pkt |-> pkt, err |-> "ok"],
            LAMBDA c :
       IF c.err # "ok" THEN c
       ELSE [pkt |-> [c.pkt EXCEPT !.isEncrypted = Null,
                                   !.keyMaterial = Null,
                                   !.s2k = Some(gnuDummyS2K),
                                   !.s2kUsage = 254,
                                   !.symmetric = Some(symmetric.aes256),
                                   !.isLegacyAEAD = Null,
                                   !.usedModernAEAD = Null],
             err |-> "ok"])

\* makeDummy(config)
makeDummy(pkt) ==
  IF isDummy(pkt) THEN [pkt |-> pkt, err |-> "ok"]
  ELSE With(IF isDecrypted(pkt) THEN clearPrivateParams(pkt) ELSE [pkt |-> pkt, err |-> "ok"],
            LAMBDA c :
       IF c.err # "ok" THEN c
       ELSE [pkt |-> [c.pkt EXCEPT !.unparseableKeyMaterial = Null,
                                   !.isEncrypted = Null,
                                   !.keyMaterial = Null,
                                   !.s2k = Some(gnuDummyS2K),
                                   !.s2kUsage = 254,
                                   !.symmetric = Some(symmetric.aes256),
                                   !.isLegacyAEAD = Null,
                                   !.usedModernAEAD = Null],
             err |-> "ok"])

\* a key derivation that applies HKDF whenever an AEAD mode is given,
\* version 5 and legacy AEAD included
produceEncryptionKey_alwaysHKDF(keyVersion, s2k, passphrase, cipherAlgo, aeadMode, serializedPacketTag, isLegacyAEAD) ==
  LET noAead == IsNull(aeadMode) \/ ~Truthy(Val(aeadMode))
      cipherErr == getCipherParams(cipherAlgo).err
  IN IF s2k.type = "argon2" /\ noAead
     THEN [err |-> "Using Argon2 S2K without AEAD is not allowed", key |-> 0]
     ELSE IF s2k.type = "simple" /\ keyVersion = 6
     THEN [err |-> "Using Simple S2K with version 6 keys is not allowed", key |-> 0]
     ELSE IF cipherErr # "ok" THEN [err |-> cipherErr, key |-> 0]
     ELSE IF noAead
     THEN [err |-> "ok", key |-> s2kProduceKey(s2k, passphrase)]
     ELSE [err |-> "ok",
           key |-> computeHKDF(s2kProduceKey(s2k, passphrase),
                               serializedPacketTag \o << keyVersion, cipherAlgo, Val(aeadMode) >>)]

\* produceEncryptionKey(keyVersion, s2k, passphrase, cipherAlgo, aeadMode,
\* serializedPacketTag, isLegacyAEAD); aeadMode and isLegacyAEAD may be
\* null or undefined
produceEncryptionKey(keyVersion, s2k, passphrase, cipherAlgo, aeadMode, serializedPacketTag, isLegacyAEAD) ==
  LET noAead == IsNull(aeadMode) \/ ~Truthy(Val(aeadMode))
      cipherErr == getCipherParams(cipherAlgo).err
  IN IF s2k.type = "argon2" /\ noAead
     THEN [err |-> "Using Argon2 S2K without AEAD is not allowed", key |-> 0]
     ELSE IF s2k.type = "simple" /\ keyVersion = 6
     THEN [err |-> "Using Simple S2K with version 6 keys is not allowed", key |-> 0]
     ELSE IF cipherErr # "ok" THEN [err |-> cipherErr, key |-> 0]
     ELSE IF noAead \/ keyVersion = 5 \/ isLegacyAEAD = Some(TRUE)
     THEN [err |-> "ok", key |-> s2kProduceKey(s2k, passphrase)]
     ELSE [err |-> "ok",
           key |-> computeHKDF(s2kProduceKey(s2k, passphrase),
                               serializedPacketTag \o << keyVersion, cipherAlgo, Val(aeadMode) >>)]

\* encrypt(), lines 401-409: p has the protection fields set
encryptAEADMaterial(p, passphrase, cleartext, ivLength, r) ==
  With(produceEncryptionKey(p.version, Val(p.s2k), passphrase, Val(p.symmetric),
                            p.aead, secretKeyTag, p.isLegacyAEAD),
       LAMBDA key :
    IF key.err # "ok" THEN [pkt |-> p, err |-> key.err]
    ELSE With(IF p.isLegacyAEAD = Some(TRUE)
              THEN getRandomBytes(getCipherParams(Val(p.symmetric)).blockSize, r)
              ELSE getRandomBytes(ivLength, r),
              LAMBDA iv :
         With(IF p.isLegacyAEAD = Some(TRUE) THEN [err |-> "ok", bytes |-> <<>>]
              ELSE With(writePublicKey(p), LAMBDA pub :
                     [err |-> pub.err, bytes |-> secretKeyTag \o pub.bytes]),
              LAMBDA associateData :
           IF associateData.err # "ok"
           THEN [pkt |-> [p EXCEPT !.iv = Some(iv)], err |-> associateData.err]
           ELSE [pkt |-> [p EXCEPT !.iv = Some(iv),
                                   !.keyMaterial =
                                     Some(aeadEncrypt(key.key, cleartext, Subarray(iv, 0, ivLength),
                                                      associateData.bytes))],
                 err |-> "ok"])))

\* encrypt(), lines 393-409: protection with an AEAD mode
encryptAEAD(pkt, passphrase, cleartext, preferredAEADAlgorithm, r) ==
  LET mode == getAEADMode(preferredAEADAlgorithm)
      legacy == pkt.version = 5
  IN IF mode.err # "ok"
     THEN [pkt |-> [pkt EXCEPT !.s2kUsage = 253, !.aead = Some(preferredAEADAlgorithm)],
           err |-> mode.err]
     ELSE encryptAEADMaterial([pkt EXCEPT !.s2kUsage = 253,
                                          !.aead = Some(preferredAEADAlgorithm),
                                          !.isLegacyAEAD = Some(legacy),
                                          !.usedModernAEAD = Some(~legacy)],
                              passphrase, cleartext, mode.ivLength, r)

\* encrypt(), lines 413-418: p has the protection fields set
encryptCFBMaterial(p, passphrase, cleartext, r) ==
  With(produceEncryptionKey(p.version, Val(p.s2k), passphrase, Val(p.symmetric),
                            Null, <<>>, Null),
       LAMBDA key :
    IF key.err # "ok" THEN [pkt |-> p, err |-> key.err]
    ELSE With(getRandomBytes(getCipherParams(Val(p.symmetric)).blockSize, r), LAMBDA iv :
           [pkt |-> [p EXCEPT !.iv = Some(iv),
                              !.keyMaterial =
                                Some(cfbEncrypt(key.key, cleartext \o computeDigestSha1(cleartext), iv))],
            err |-> "ok"]))

\* a CFB protection that drops the private parameters and marks the packet
\* encrypted
encryptCFB_clearsParams(pkt, passphrase, cleartext, r) ==
  encryptCFBMaterial([pkt EXCEPT !.s2kUsage = 254, !.usedModernAEAD = Some(FALSE),
                                 !.privateParams = Null, !.isEncrypted = Some(TRUE)],
                     passphrase, cleartext, r)

\* encrypt(), lines 410-419: protection with CFB and a SHA-1 hash
encryptCFB(pkt, passphrase, cleartext, r) ==
  encryptCFBMaterial([pkt EXCEPT !.s2kUsage = 254, !.usedModernAEAD = Some(FALSE)],
                     passphrase, cleartext, r)

\* encrypt(passphrase, config); config has aeadProtect,
\* preferredAEADAlgorithm and s2kType; r is what the random generator
\* returns
encrypt(pkt, passphrase, config, r) ==
  IF isDummy(pkt) THEN [pkt |-> pkt, err |-> "ok"]
  ELSE IF ~isDecrypted(pkt) THEN [pkt |-> pkt, err |-> "Key packet is already encrypted"]
  ELSE IF passphrase = 0
  THEN [pkt |-> pkt, err |-> "A non-empty passphrase is required for key encryption."]
  ELSE With([pkt EXCEPT !.s2k = Some(newS2KFromConfig(config.s2kType, r))], LAMBDA p1 :
       With(serializeParams(pkt.algorithm, pkt.privateParams), LAMBDA cleartext :
         IF cleartext.err # "ok" THEN [pkt |-> p1, err |-> cleartext.err]
         ELSE IF config.aeadProtect
         THEN encryptAEAD([p1 EXCEPT !.symmetric = Some(symmetric.aes256)], passphrase,
                          cleartext.bytes, config.preferredAEADAlgorithm, r)
         ELSE encryptCFB([p1 EXCEPT !.symmetric = Some(symmetric.aes256)], passphrase,
                         cleartext.bytes, r)))

\* decrypt(), lines 456-469: the cleartext of AEAD-protected key material
decryptAEAD(pkt, key) ==
  With(getAEADMode(Val(pkt.aead)), LAMBDA mode :
    IF mode.err # "ok" THEN [err |-> mode.err, val |-> <<>>]
    ELSE With(IF pkt.isLegacyAEAD = Some(TRUE) THEN [err |-> "ok", bytes |-> <<>>]
              ELSE With(writePublicKey(pkt), LAMBDA pub :
                     [err |-> pub.err, bytes |-> secretKeyTag \o pub.bytes]),
              LAMBDA associateData :
           IF associateData.err # "ok" THEN [err |-> associateData.err, val |-> <<>>]
           ELSE IF IsNull(pkt.keyMaterial) \/ IsNull(pkt.iv) THEN [err |-> "TypeError", val |-> <<>>]
           ELSE With(aeadDecrypt(key, Val(pkt.keyMaterial),
                                 Subarray(Val(pkt.iv), 0, mode.ivLength), associateData.bytes),
                     LAMBDA d :
                  IF d.err = "Authentication tag mismatch"
                  THEN [err |-> "Incorrect key passphrase: Authentication tag mismatch",
                        val |-> <<>>]
                  ELSE d)))

\* a CFB decryption that does not compare the SHA-1 hash
decryptCFB_noHashCheck(pkt, key) ==
  IF IsNull(pkt.keyMaterial) \/ IsNull(pkt.iv) THEN [err |-> "TypeError", val |-> <<>>]
  ELSE [err |-> "ok",
        val |-> DropLast(cfbDecrypt(key, Val(pkt.keyMaterial), Val(pkt.iv)), 20)]

\* decrypt(), lines 470-479: the cleartext of CFB-protected key material
decryptCFB(pkt, key) ==
  IF IsNull(pkt.keyMaterial) \/ IsNull(pkt.iv) THEN [err |-> "TypeError", val |-> <<>>]
  ELSE With(cfbDecrypt(key, Val(pkt.keyMaterial), Val(pkt.iv)), LAMBDA cleartextWithHash :
       With(DropLast(cleartextWithHash, 20), LAMBDA cleartext :
         IF computeDigestSha1(cleartext) # TakeLast(cleartextWithHash, 20)
         THEN [err |-> "Incorrect key passphrase", val |-> <<>>]
         ELSE [err |-> "ok", val |-> cleartext]))

\* decrypt(), lines 483-492: the fields after a successful decryption
setDecrypted(pkt, privateParams) ==
  [pkt EXCEPT !.privateParams = Some(privateParams),
              !.isEncrypted = Some(FALSE),
              !.keyMaterial = Null,
              !.s2kUsage = 0,
              !.aead = Null,
              !.symmetric = Null,
              !.isLegacyAEAD = Null]

\* decrypt(), lines 446-479: the key derived from the passphrase and the
\* cleartext the key material decrypts to
decryptCleartext(pkt, passphrase) ==
  With(IF IsNull(pkt.s2k) \/ IsNull(pkt.symmetric)
       THEN [err |-> "TypeError", key |-> 0]
       ELSE produceEncryptionKey(pkt.version, Val(pkt.s2k), passphrase, Val(pkt.symmetric),
                                 pkt.aead, secretKeyTag, pkt.isLegacyAEAD),
       LAMBDA key :
    IF key.err # "ok" THEN [err |-> key.err, val |-> <<>>]
    ELSE IF pkt.s2kUsage = 253 THEN decryptAEAD(pkt, key.key) ELSE decryptCFB(pkt, key.key))

\* decrypt(), lines 444-493: a protected packet with s2kUsage 253 or 254
decryptProtected(pkt, passphrase) ==
  With(decryptCleartext(pkt, passphrase), LAMBDA cleartext :
    IF cleartext.err # "ok" THEN [pkt |-> pkt, err |-> cleartext.err]
    ELSE With(parsePrivateKeyParams(pkt.algorithm, cleartext.val, pkt.publicParams),
              LAMBDA parsed :
           IF parsed.err # "ok" THEN [pkt |-> pkt, err |-> "Error reading MPIs"]
           ELSE [pkt |-> setDecrypted(pkt, parsed.params), err |-> "ok"]))

\* a decrypt(passphrase) without the guard on the decrypted state
decrypt_noDecryptedGuard(pkt, passphrase) ==
  IF isDummy(pkt) THEN [pkt |-> pkt, err |-> "false"]
  ELSE IF ~IsNull(pkt.unparseableKeyMaterial)
  THEN [pkt |-> pkt, err |-> "Key packet cannot be decrypted: unsupported S2K or cipher algo"]
  ELSE IF pkt.s2kUsage \notin {253, 254}
  THEN [pkt |-> pkt, err |-> "Private key is encrypted using an insecure S2K function: unsalted MD5"]
  ELSE decryptProtected(pkt, passphrase)

\* a decrypt(passphrase) that hands every encrypted packet to the key
\* derivation, whatever its s2kUsage
decrypt_noInsecureGuard(pkt, passphrase) ==
  IF isDummy(pkt) THEN [pkt |-> pkt, err |-> "false"]
  ELSE IF ~IsNull(pkt.unparseableKeyMaterial)
  THEN [pkt |-> pkt, err |-> "Key packet cannot be decrypted: unsupported S2K or cipher algo"]
  ELSE IF isDecrypted(pkt) THEN [pkt |-> pkt, err |-> "Key packet is already decrypted."]
  ELSE decryptProtected(pkt, passphrase)

\* decrypt(passphrase); on a gnu-dummy packet it returns false, which the
\* result shows as the outcome "false"
decrypt(pkt, passphrase) ==
  IF isDummy(pkt) THEN [pkt |-> pkt, err |-> "false"]
  ELSE IF ~IsNull(pkt.unparseableKeyMaterial)
  THEN [pkt |-> pkt, err |-> "Key packet cannot be decrypted: unsupported S2K or cipher algo"]
  ELSE IF isDecrypted(pkt) THEN [pkt |-> pkt, err |-> "Key packet is already decrypted."]
  ELSE IF pkt.s2kUsage = 255
  THEN [pkt |-> pkt, err |-> "Encrypted private key is authenticated using an insecure two-byte hash"]
  ELSE IF pkt.s2kUsage \notin {253, 254}
  THEN [pkt |-> pkt, err |-> "Private key is encrypted using an insecure S2K function: unsalted MD5"]
  ELSE decryptProtected(pkt, passphrase)

\* validate(): called says whether validateParams was consulted
validate(pkt) ==
  IF isDummy(pkt) THEN [err |-> "ok", called |-> FALSE]
  ELSE IF ~isDecrypted(pkt) THEN [err |-> "Key is not decrypted", called |-> FALSE]
  ELSE IF pkt.usedModernAEAD = Some(TRUE) THEN [err |-> "ok", called |-> FALSE]
  ELSE With(validateParams(pkt.algorithm, pkt.publicParams, pkt.privateParams), LAMBDA v :
         IF v.err # "ok" \/ ~v.valid THEN [err |-> "Key is invalid", called |-> TRUE]
         ELSE [err |-> "ok", called |-> TRUE])

\* generate(bits, curve, symmetric), the generator returning r
generate(pkt, curve, r) ==
  IF pkt.version = 6 /\ ((pkt.algorithm = publicKey.ecdh /\ curve = "curve25519Legacy")
                         \/ pkt.algorithm = publicKey.eddsaLegacy)
  THEN [pkt |-> pkt, err |-> "Cannot generate v6 keys of type 'ecc'"]
  ELSE IF pkt.version # 6 /\ pkt.algorithm = publicKey.pqc_mldsa_ed25519
  THEN [pkt |-> pkt, err |-> "Cannot generate signing keys of type 'pqc'"]
  ELSE With(generateParams(pkt.algorithm, r), LAMBDA g :
         IF g.err # "ok" THEN [pkt |-> pkt, err |-> g.err]
         ELSE [pkt |-> [pkt EXCEPT !.privateParams = Some(g.privateParams),
                                   !.publicParams = Some(g.publicParams),
                                   !.isEncrypted = Some(FALSE)],
               err |-> "ok"])

\* generate(bits, curve, symmetric) without the checks of the version
generateWith_noVersionCheck(pkt, oid, symmetricAlgo, r) ==
  With(generateParamsWith(pkt.algorithm, oid, symmetricAlgo, r), LAMBDA g :
    IF g.err # "ok" THEN [pkt |-> pkt, err |-> g.err]
    ELSE [pkt |-> [pkt EXCEPT !.privateParams = Some(g.privateParams),
                              !.publicParams = Some(g.publicParams),
                              !.isEncrypted = Some(FALSE)],
          err |-> "ok"])

\* generate(bits, curve, symmetric) for every algorithm generateParams
\* knows, the curve given by its OID
generateWith(pkt, oid, symmetricAlgo, r) ==
  IF pkt.version = 6 /\ ((pkt.algorithm = publicKey.ecdh
                            /\ oidGetName(oid) = "curve25519Legacy")
                         \/ pkt.algorithm = publicKey.eddsaLegacy)
  THEN [pkt |-> pkt, err |-> "Cannot generate v6 keys of type 'ecc'"]
  ELSE IF pkt.version # 6 /\ pkt.algorithm = publicKey.pqc_mldsa_ed25519
  THEN [pkt |-> pkt, err |-> "Cannot generate signing keys of type 'pqc'"]
  ELSE With(generateParamsWith(pkt.algorithm, oid, symmetricAlgo, r), LAMBDA g :
         IF g.err # "ok" THEN [pkt |-> pkt, err |-> g.err]
         ELSE [pkt |-> [pkt EXCEPT !.privateParams = Some(g.privateParams),
                                   !.publicParams = Some(g.publicParams),
                                   !.isEncrypted = Some(FALSE)],
               err |-> "ok"])

(***************************************************************************)
(* Inputs of the Secret-Key packet machine.                                *)
(***************************************************************************)
Versions == {4, 5, 6}
Algorithms == {publicKey.rsaEncryptSign, publicKey.ed25519}
Passphrases == 0..MaxPass
Randoms == 1..MaxRand
Config(aeadProtect, preferredAEADAlgorithm, s2kType) ==
  [aeadProtect |-> aeadProtect, preferredAEADAlgorithm |-> preferredAEADAlgorithm,
   s2kType |-> s2kType]
Configs ==
  { Config(FALSE, aeadEnum.gcm, "iterated"), Config(FALSE, aeadEnum.gcm, "argon2"),
    Config(TRUE, aeadEnum.eax, "iterated"), Config(TRUE, aeadEnum.gcm, "argon2") }

\* parseAEADEncryptedV4KeysAsLegacy only bears on version 4 packets
LegacyFlags(v) == IF v = 4 THEN BOOLEAN ELSE {FALSE}

\* an unencrypted packet whose public parameters do not belong to its
\* private ones
mismatchedPacket(v, algo) ==
  LET g == generateParams(algo, 1)
      pub == IF algo = publicKey.rsaEncryptSign
             THEN << Param("n", << 5 >>), Param("e", << 1, 0, 1 >>) >>
             ELSE << Param("A", Fill(32, 9)) >>
  IN [NewPacket(v, algo) EXCEPT !.publicParams = Some(pub),
                                !.privateParams = Some(g.privateParams),
                                !.isEncrypted = Some(FALSE)]

\* the public-key prefix followed by a protected secret part whose S2K
\* specifier has the unknown type 99
unknownS2KBytes(v, algo) ==
  writePublicKey(mismatchedPacket(v, algo)).bytes
    \o << 254 >> \o (IF v = 5 THEN << 2 >> ELSE <<>>) \o (IF v = 6 THEN << 3 >> ELSE <<>>)
    \o << symmetric.aes256 >> \o (IF v = 6 THEN << 1 >> ELSE <<>>) \o << 99 >>

\* the public-key prefix followed by a protected secret part with the
\* unknown AEAD mode 9 under s2kUsage 253, an iterated S2K and three bytes
unknownAEADBytes(v, algo) ==
  writePublicKey(mismatchedPacket(v, algo)).bytes
    \o << 253 >> \o (IF v = 5 THEN << 13 >> ELSE <<>>) \o (IF v = 6 THEN << 14 >> ELSE <<>>)
    \o << symmetric.aes256, 9 >> \o (IF v = 6 THEN << 11 >> ELSE <<>>)
    \o << 3, 8 >> \o Fill(8, 1) \o << 224 >> \o << 7, 7, 7 >>

\* protected secret parts whose optional fields do not parse: an unknown
\* cipher under s2kUsage 254, an s2kUsage octet that is an unknown cipher
\* code, and a gnu extension that is not the dummy one; each followed by
\* three bytes
unparseableSecretParts(v) ==
  With(<< 3, 8 >> \o Fill(8, 1) \o << 224 >>, LAMBDA iterated :
    {<< 254 >> \o (IF v = 5 THEN << 12 >> ELSE <<>>) \o (IF v = 6 THEN << 13 >> ELSE <<>>)
       \o << 99 >> \o (IF v = 6 THEN << 11 >> ELSE <<>>) \o iterated \o << 7, 7, 7 >>,
     << 99 >> \o (IF v = 5 THEN << 0 >> ELSE <<>>) \o (IF v = 6 THEN << 0 >> ELSE <<>>)
       \o << 7, 7, 7 >>,
     << 254 >> \o (IF v = 5 THEN << 7 >> ELSE <<>>) \o (IF v = 6 THEN << 8 >> ELSE <<>>)
       \o << symmetric.aes256 >> \o (IF v = 6 THEN << 6 >> ELSE <<>>)
       \o << 101, 0, 71, 78, 85, 2 >> \o << 7, 7, 7 >>})

unparseableBytes(v, algo) ==
  {writePublicKey(mismatchedPacket(v, algo)).bytes \o secret :
     secret \in unparseableSecretParts(v)}

\* an unencrypted RSA packet whose first secret MPI announces 16 bits and
\* starts with a zero byte
nonCanonicalBytes(v) ==
  With(<< 0, 16, 0, 5,  0, 2, 3,  0, 3, 7,  0, 1, 1 >>, LAMBDA cleartext :
    writePublicKey(mismatchedPacket(v, publicKey.rsaEncryptSign)).bytes
      \o << 0 >> \o (IF v = 5 THEN << 0 >> \o writeNumber4(Len(cleartext)) ELSE <<>>)
      \o cleartext \o (IF v # 6 THEN writeChecksum(cleartext) ELSE <<>>))

\* a packet protected with CFB under passphrase 1 whose cleartext is the
\* serialized private parameters followed by the byte 7
trailingCleartextBytes(v, algo) ==
  With(generate(NewPacket(v, algo), "none", 1).pkt, LAMBDA g :
    write(encryptCFB([g EXCEPT !.s2k = Some(newS2KFromConfig("iterated", 1)),
                               !.symmetric = Some(symmetric.aes256)],
                     1, serializeParams(g.algorithm, g.privateParams).bytes \o << 7 >>,
                     1).pkt).bytes)

\* the same cleartext protected with an AEAD mode
trailingCleartextAEADBytes(v, algo) ==
  With(generate(NewPacket(v, algo), "none", 1).pkt, LAMBDA g :
    write(encryptAEAD([g EXCEPT !.s2k = Some(newS2KFromConfig("iterated", 1)),
                                !.symmetric = Some(symmetric.aes256)],
                      1, serializeParams(g.algorithm, g.privateParams).bytes \o << 7 >>,
                      aeadEnum.eax, 1).pkt).bytes)

\* protected packets in the two legacy formats: s2kUsage 255 with a cipher,
\* an iterated S2K and an IV, and s2kUsage that is itself the cipher code
\* of aes256 followed by an IV; each with three bytes of key material
insecureBytes(v, algo) ==
  With(IF v = 5 THEN << 0, 0, 0, 3 >> ELSE <<>>, LAMBDA count :
    {writePublicKey(mismatchedPacket(v, algo)).bytes
       \o << 255 >> \o (IF v = 5 THEN << 28 >> ELSE <<>>) \o (IF v = 6 THEN << 29 >> ELSE <<>>)
       \o << symmetric.aes256 >> \o (IF v = 6 THEN << 11 >> ELSE <<>>)
       \o << 3, 8 >> \o Fill(8, 1) \o << 224 >> \o Fill(16, 2) \o count \o << 7, 7, 7 >>,
     writePublicKey(mismatchedPacket(v, algo)).bytes
       \o << symmetric.aes256 >> \o (IF v = 5 THEN << 16 >> ELSE <<>>)
       \o (IF v = 6 THEN << 16 >> ELSE <<>>)
       \o Fill(16, 2) \o count \o << 7, 7, 7 >>})

\* protected packets whose S2K specifier the key derivation refuses or
\* accepts by the protection in use: Simple and Argon2 under CFB
\* (s2kUsage 254), Simple under AEAD (s2kUsage 253, eax); each with an IV
\* and twenty bytes of key material
s2kConstraintBytes(v, algo) ==
  With(IF v = 5 THEN << 0, 0, 0, 20 >> ELSE <<>>, LAMBDA count :
    {writePublicKey(mismatchedPacket(v, algo)).bytes
       \o << 254 >> \o (IF v = 5 THEN << 19 >> ELSE <<>>) \o (IF v = 6 THEN << 20 >> ELSE <<>>)
       \o << symmetric.aes256 >> \o (IF v = 6 THEN << 2 >> ELSE <<>>)
       \o << 0, 8 >> \o Fill(16, 2) \o count \o Fill(20, 7),
     writePublicKey(mismatchedPacket(v, algo)).bytes
       \o << 254 >> \o (IF v = 5 THEN << 37 >> ELSE <<>>) \o (IF v = 6 THEN << 38 >> ELSE <<>>)
       \o << symmetric.aes256 >> \o (IF v = 6 THEN << 20 >> ELSE <<>>)
       \o << 4 >> \o Fill(16, 1) \o << 3, 4, 16 >> \o Fill(16, 2) \o count \o Fill(20, 7),
     writePublicKey(mismatchedPacket(v, algo)).bytes
       \o << 253 >> \o (IF v = 5 THEN << 20 >> ELSE <<>>) \o (IF v = 6 THEN << 21 >> ELSE <<>>)
       \o << symmetric.aes256, aeadEnum.eax >> \o (IF v = 6 THEN << 2 >> ELSE <<>>)
       \o << 0, 8 >> \o Fill(16, 2) \o count \o Fill(20, 7)})

\* byte strings a caller may hand to read() besides serialized packets
CraftedBytes(v, algo) ==
  { write(mismatchedPacket(v, algo)).bytes,
    IF algo = publicKey.rsaEncryptSign THEN nonCanonicalBytes(v)
    ELSE write(mismatchedPacket(v, algo)).bytes,
    DropLast(write(mismatchedPacket(v, algo)).bytes, 1),
    unknownS2KBytes(v, algo),
    write(makeDummy(mismatchedPacket(v, algo)).pkt).bytes }
    \cup unparseableBytes(v, algo) \cup {unknownAEADBytes(v, algo)}
    \cup {trailingCleartextBytes(v, algo), trailingCleartextAEADBytes(v, algo)}
    \cup insecureBytes(v, algo) \cup s2kConstraintBytes(v, algo)

(***************************************************************************)
(* The Public-Key Encrypted Session Key packet.                            *)
(***************************************************************************)
\* enums.read(enums.symmetric, e): the name of the value, which is a
\* non-empty string, or the error it throws for a value outside the table
enumsReadSymmetric(e) ==
  IF e \in symmetricValues THEN "ok" ELSE "Invalid enum value."

\* util.isAES(cipherAlgo)
isAES(cipherAlgo) == cipherAlgo \in {symmetric.aes128, symmetric.aes192, symmetric.aes256}

\* new Uint8Array([x]): the byte a nullable number is stored as
toUint8(x) == IF IsNull(x) \/ Val(x) = Undefined THEN 0 ELSE Val(x) % 256

\* util.selectUint8Array(cond, a, b)
selectUint8Array(cond, a, b) ==
  [i \in 1..(IF cond THEN Len(a) ELSE Len(b)) |-> IF cond THEN a[i] ELSE b[i]]

\* util.selectUint8(cond, a, b) = (a & (256 - cond)) | (b & (255 + cond))
\* of two nullable numbers: null and undefined count as 0
selectUint8(cond, a, b) == IF cond THEN toUint8(a) ELSE toUint8(b)

\* the public-key algorithms whose payload carries a checksum
checksummedAlgos ==
  {publicKey.rsaEncrypt, publicKey.rsaEncryptSign, publicKey.elgamal, publicKey.ecdh,
   publicKey.aead}

\* algosWithV3CleartextSessionKeyAlgorithm
algosWithV3CleartextSessionKeyAlgorithm ==
  {publicKey.x25519, publicKey.x448, publicKey.pqc_mlkem_x25519}

\* encodeSessionKey(version, keyAlgo, cipherAlgo, sessionKeyData);
\* cipherAlgo is a nullable number
encodeSessionKey(version, keyAlgo, cipherAlgo, sessionKeyData) ==
  IF keyAlgo \in checksummedAlgos
  THEN [err |-> "ok",
        bytes |-> (IF version = 6 THEN <<>> ELSE << toUint8(cipherAlgo) >>)
                    \o sessionKeyData
                    \o writeChecksum(SubarrayFrom(sessionKeyData, Len(sessionKeyData) % 8))]
  ELSE IF keyAlgo \in algosWithV3CleartextSessionKeyAlgorithm
  THEN [err |-> "ok", bytes |-> sessionKeyData]
  ELSE [err |-> "Unsupported public key algorithm", bytes |-> <<>>]

\* decodeSessionKey(), lines 265-271: the checksum verdict and the session
\* key as the payload carries it
decodeChecksummed(version, decryptedData) ==
  LET result == DropLast(decryptedData, 2)
      checksum == TakeLast(decryptedData, 2)
      computedChecksum == writeChecksum(SubarrayFrom(result, Len(result) % 8))
  IN [isValidChecksum |-> /\ computedChecksum[1] = At(checksum, 0)
                          /\ computedChecksum[2] = At(checksum, 1),
      sessionKeyAlgorithm |-> IF version = 6 THEN Null ELSE Some(At(result, 0)),
      sessionKey |-> IF version = 6 THEN result ELSE SubarrayFrom(result, 1)]

\* a decodeSessionKey that takes no account of randomSessionKey
decodeSessionKey_noFallback(version, keyAlgo, decryptedData, randomSessionKey) ==
  IF keyAlgo \in checksummedAlgos
  THEN With(decodeChecksummed(version, decryptedData), LAMBDA decryptedSessionKey :
    IF ~decryptedSessionKey.isValidChecksum
    THEN [err |-> "Decryption error", sessionKey |-> <<>>, sessionKeyAlgorithm |-> Null]
    ELSE [err |-> "ok", sessionKey |-> decryptedSessionKey.sessionKey,
          sessionKeyAlgorithm |-> decryptedSessionKey.sessionKeyAlgorithm])
  ELSE [err |-> "ok", sessionKey |-> decryptedData, sessionKeyAlgorithm |-> Null]

\* decodeSessionKey(version, keyAlgo, decryptedData, randomSessionKey);
\* randomSessionKey is Null or Some of a record with sessionKey and
\* sessionKeyAlgorithm
decodeSessionKey(version, keyAlgo, decryptedData, randomSessionKey) ==
  IF keyAlgo \in checksummedAlgos
  THEN With(decodeChecksummed(version, decryptedData), LAMBDA decryptedSessionKey :
    IF ~IsNull(randomSessionKey)
    THEN With(/\ decryptedSessionKey.isValidChecksum
              /\ decryptedSessionKey.sessionKeyAlgorithm = Val(randomSessionKey).sessionKeyAlgorithm
              /\ Len(decryptedSessionKey.sessionKey) = Len(Val(randomSessionKey).sessionKey),
              LAMBDA isValidPayload :
           [err |-> "ok",
            sessionKey |-> selectUint8Array(isValidPayload, decryptedSessionKey.sessionKey,
                                            Val(randomSessionKey).sessionKey),
            sessionKeyAlgorithm |->
              IF version = 6 THEN Null
              ELSE Some(selectUint8(isValidPayload, decryptedSessionKey.sessionKeyAlgorithm,
                                    Val(randomSessionKey).sessionKeyAlgorithm))])
    ELSE IF ~decryptedSessionKey.isValidChecksum
    THEN [err |-> "Decryption error", sessionKey |-> <<>>, sessionKeyAlgorithm |-> Null]
    ELSE IF version # 6
            /\ enumsReadSymmetric(Val(decryptedSessionKey.sessionKeyAlgorithm)) # "ok"
    THEN [err |-> enumsReadSymmetric(Val(decryptedSessionKey.sessionKeyAlgorithm)),
          sessionKey |-> <<>>, sessionKeyAlgorithm |-> Null]
    ELSE [err |-> "ok", sessionKey |-> decryptedSessionKey.sessionKey,
          sessionKeyAlgorithm |-> decryptedSessionKey.sessionKeyAlgorithm])
  ELSE IF keyAlgo \in algosWithV3CleartextSessionKeyAlgorithm
  THEN [err |-> "ok", sessionKey |-> decryptedData, sessionKeyAlgorithm |-> Null]
  ELSE [err |-> "Unsupported public key algorithm", sessionKey |-> <<>>,
        sessionKeyAlgorithm |-> Null]

\* the size of an ML-KEM-768 ciphertext
mlkemCipherTextSize == 1088

\* the encrypted session key parameters; {} has every field undefined
NoEncrypted ==
  [c |-> Null, c1 |-> Null, c2 |-> Null, V |-> Null, aeadMode |-> Null, iv |-> Null,
   ephemeralPublicKey |-> Null, eccCipherText |-> Null, mlkemCipherText |-> Null,
   C |-> Null]

\* rsa.encrypt / elgamal.encrypt: the payload under an EME-PKCS1-v1_5 style
\* padding with one random non-zero byte, under the key k
pkcs1Encrypt(data, k, r) == shift(<< 0, 2, r, 0 >> \o data, k)

\* rsa.decrypt / elgamal.decrypt with the randomPayload fallback
pkcs1Decrypt(c, k, randomPayload) ==
  With(unshift(c, k), LAMBDA em :
    IF Len(em) >= 4 /\ em[1] = 0 /\ em[2] = 2 /\ em[3] # 0 /\ em[4] = 0
    THEN [err |-> "ok", bytes |-> SubarrayFrom(em, 4)]
    ELSE IF ~IsNull(randomPayload) THEN [err |-> "ok", bytes |-> Val(randomPayload)]
    ELSE [err |-> "Decryption error", bytes |-> <<>>])

\* aesKW.wrap / unwrap under the key-encryption key the exchange yields
aesKWWrap(kek, data) == shift(<< 166 >> \o data, kek)
aesKWUnwrap(kek, wrapped) ==
  With(unshift(wrapped, kek), LAMBDA pt :
    IF Len(pt) >= 1 /\ pt[1] = 166 THEN [err |-> "ok", bytes |-> Tail(pt)]
    ELSE [err |-> "Key Data Integrity failed", bytes |-> <<>>])

(***************************************************************************)
(* The composite ML-KEM + X25519 KEM (post_quantum/kem).  X25519, ML-KEM   *)
(* and SHA3-256 are stand-ins; the key pair of the recipient is the number *)
(* k, from which the parameter fields are built.                           *)
(***************************************************************************)
\* the sum of i * (data[i] + 1) over lo..hi, modulo 2^16
RECURSIVE weightedSum(_, _, _)
weightedSum(data, lo, hi) ==
  IF lo > hi THEN 0
  ELSE IF lo = hi THEN (lo * (data[lo] + 1)) % 65536
  ELSE (weightedSum(data, lo, (lo + hi) \div 2)
          + weightedSum(data, (lo + hi) \div 2 + 1, hi)) % 65536

\* computeDigest(enums.hash.sha3_256, data) / hash.sha3_256(data): 32 bytes
\* that depend on every byte of data and on its position
sha3_256(data) ==
  With(weightedSum(data, 1, Len(data)), LAMBDA w :
    [j \in 1..32 |-> ((IF j % 2 = 0 THEN w ELSE w \div 256) + j) % 256])

\* the parameters of the composite key pair k
pqcKemPublicParams(k) ==
  [eccPublicKey |-> Fill(32, k), mlkemPublicKey |-> Fill(1184, (k + 1) % 256)]
pqcKemPrivateParams(k) ==
  [eccSecretKey |-> Fill(32, k), mlkemSecretKey |-> Fill(64, (k + 1) % 256)]

\* eccKem.encaps(eccAlgo, eccRecipientPublicKey), the ephemeral secret
\* being r
eccKemEncaps(eccAlgo, eccRecipientPublicKey, r) ==
  IF eccAlgo # publicKey.pqc_mlkem_x25519
  THEN [err |-> "Unsupported KEM algorithm", eccCipherText |-> <<>>, eccKeyShare |-> <<>>]
  ELSE With(getRandomBytes(32, r), LAMBDA eccCipherText :
       With(Fill(32, (At(eccRecipientPublicKey, 0) + r) % 256), LAMBDA eccSharedSecret :
         [err |-> "ok",
          eccCipherText |-> eccCipherText,
          eccKeyShare |-> sha3_256(eccSharedSecret \o eccCipherText \o eccRecipientPublicKey)]))

\* eccKem.decaps(eccAlgo, eccCipherText, eccSecretKey, eccPublicKey)
eccKemDecaps(eccAlgo, eccCipherText, eccSecretKey, eccPublicKey) ==
  IF eccAlgo # publicKey.pqc_mlkem_x25519
  THEN [err |-> "Unsupported KEM algorithm", eccKeyShare |-> <<>>]
  ELSE With(Fill(32, (At(eccSecretKey, 0) + At(eccCipherText, 0)) % 256),
            LAMBDA eccSharedSecret :
         [err |-> "ok",
          eccKeyShare |-> sha3_256(eccSharedSecret \o eccCipherText \o eccPublicKey)])

\* mlKem.encaps(algo, mlkemRecipientPublicKey), the randomness being r
mlKemEncaps(algo, mlkemRecipientPublicKey, r) ==
  IF algo # publicKey.pqc_mlkem_x25519
  THEN [err |-> "Unsupported KEM algorithm", mlkemCipherText |-> <<>>, mlkemKeyShare |-> <<>>]
  ELSE [err |-> "ok",
        mlkemCipherText |-> Fill(1088, r),
        mlkemKeyShare |-> Fill(32, (At(mlkemRecipientPublicKey, 0) + 2 * r) % 256)]

\* mlKem.decaps(algo, mlkemCipherText, mlkemSecretKey)
mlKemDecaps(algo, mlkemCipherText, mlkemSecretKey) ==
  IF algo # publicKey.pqc_mlkem_x25519
  THEN [err |-> "Unsupported KEM algorithm", mlkemKeyShare |-> <<>>]
  ELSE [err |-> "ok",
        mlkemKeyShare |-> Fill(32, (At(mlkemSecretKey, 0) + 2 * At(mlkemCipherText, 0)) % 256)]

\* util.encodeUTF8('OpenPGPCompositeKDFv1')
domSep ==
  << 79, 112, 101, 110, 80, 71, 80, 67, 111, 109, 112, 111, 115, 105, 116, 101,
     75, 68, 70, 118, 49 >>

\* a combiner input without the length of the domain separator
multiKeyCombineData_noLength(algo, mlkemKeyShare, ecdhKeyShare, ecdhCipherText, ecdhPublicKey) ==
  mlkemKeyShare \o ecdhKeyShare \o ecdhCipherText \o ecdhPublicKey \o << algo >> \o domSep

\* multiKeyCombine(): encData, the bytes that are hashed
multiKeyCombineData(algo, mlkemKeyShare, ecdhKeyShare, ecdhCipherText, ecdhPublicKey) ==
  mlkemKeyShare \o ecdhKeyShare \o ecdhCipherText \o ecdhPublicKey \o << algo >> \o domSep
    \o << Len(domSep) >>

\* multiKeyCombine(algo, mlkemKeyShare, ecdhKeyShare, ecdhCipherText,
\* ecdhPublicKey)
multiKeyCombine(algo, mlkemKeyShare, ecdhKeyShare, ecdhCipherText, ecdhPublicKey) ==
  sha3_256(multiKeyCombineData(algo, mlkemKeyShare, ecdhKeyShare, ecdhCipherText,
                               ecdhPublicKey))

\* kem.encrypt(), lines 16-18: the ciphertexts and the key-encryption key
kemEncryptKEK(algo, eccPublicKey, mlkemPublicKey, r) ==
  With(eccKemEncaps(algo, eccPublicKey, r), LAMBDA e :
  With(mlKemEncaps(algo, mlkemPublicKey, r), LAMBDA m :
    IF e.err # "ok" \/ m.err # "ok"
    THEN [err |-> IF e.err # "ok" THEN e.err ELSE m.err,
          eccCipherText |-> <<>>, mlkemCipherText |-> <<>>, kek |-> <<>>]
    ELSE [err |-> "ok",
          eccCipherText |-> e.eccCipherText,
          mlkemCipherText |-> m.mlkemCipherText,
          kek |-> multiKeyCombine(algo, m.mlkemKeyShare, e.eccKeyShare, e.eccCipherText,
                                  eccPublicKey)]))

\* kem.encrypt(algo, eccPublicKey, mlkemPublicKey, sessioneKeyData)
kemEncrypt(algo, eccPublicKey, mlkemPublicKey, sessioneKeyData, r) ==
  With(kemEncryptKEK(algo, eccPublicKey, mlkemPublicKey, r), LAMBDA k :
    IF k.err # "ok"
    THEN [err |-> k.err, eccCipherText |-> <<>>, mlkemCipherText |-> <<>>, wrappedKey |-> <<>>]
    ELSE [err |-> "ok",
          eccCipherText |-> k.eccCipherText,
          mlkemCipherText |-> k.mlkemCipherText,
          wrappedKey |-> aesKWWrap(Sum(k.kek), sessioneKeyData)])

\* kem.decrypt(), lines 24-26: the key-encryption key
kemDecryptKEK(algo, eccCipherText, mlkemCipherText, eccSecretKey, eccPublicKey, mlkemSecretKey, mlkemPublicKey) ==
  With(eccKemDecaps(algo, eccCipherText, eccSecretKey, eccPublicKey), LAMBDA e :
  With(mlKemDecaps(algo, mlkemCipherText, mlkemSecretKey), LAMBDA m :
    IF e.err # "ok" \/ m.err # "ok"
    THEN [err |-> IF e.err # "ok" THEN e.err ELSE m.err, kek |-> <<>>]
    ELSE [err |-> "ok",
          kek |-> multiKeyCombine(algo, m.mlkemKeyShare, e.eccKeyShare, eccCipherText,
                                  eccPublicKey)]))

\* kem.decrypt(algo, eccCipherText, mlkemCipherText, eccSecretKey,
\* eccPublicKey, mlkemSecretKey, mlkemPublicKey, encryptedSessionKeyData)
kemDecrypt(algo, eccCipherText, mlkemCipherText, eccSecretKey, eccPublicKey, mlkemSecretKey, mlkemPublicKey, encryptedSessionKeyData) ==
  With(kemDecryptKEK(algo, eccCipherText, mlkemCipherText, eccSecretKey, eccPublicKey,
                     mlkemSecretKey, mlkemPublicKey),
       LAMBDA k :
    IF k.err # "ok" THEN [err |-> k.err, bytes |-> <<>>]
    ELSE aesKWUnwrap(Sum(k.kek), encryptedSessionKeyData))

\* publicKeyEncrypt(keyAlgo, symmetricAlgo, publicParams, privateParams,
\* data, fingerprint); the keys are numbers, r is what the random generator
\* returns
publicKeyEncrypt(keyAlgo, symmetricAlgo, publicParams, privateParams, data, r) ==
  IF keyAlgo \in {publicKey.rsaEncrypt, publicKey.rsaEncryptSign}
  THEN [err |-> "ok",
        encrypted |-> [NoEncrypted EXCEPT !.c = Some(pkcs1Encrypt(data, publicParams, r))]]
  ELSE IF keyAlgo = publicKey.elgamal
  THEN [err |-> "ok",
        encrypted |-> [NoEncrypted EXCEPT !.c1 = Some(<< r >>),
                                          !.c2 = Some(pkcs1Encrypt(data, publicParams, r))]]
  ELSE IF keyAlgo = publicKey.ecdh
  THEN [err |-> "ok",
        encrypted |-> [NoEncrypted EXCEPT
                         !.V = Some(<< r >>),
                         !.C = Some([algorithm |-> Null,
                                     wrappedKey |-> aesKWWrap(publicParams + r, data)])]]
  ELSE IF keyAlgo = publicKey.pqc_mlkem_x25519
  THEN With(kemEncrypt(keyAlgo, pqcKemPublicParams(publicParams).eccPublicKey,
                       pqcKemPublicParams(publicParams).mlkemPublicKey, data, r),
            LAMBDA k :
         IF k.err # "ok" THEN [err |-> k.err, encrypted |-> NoEncrypted]
         ELSE [err |-> "ok",
               encrypted |-> [NoEncrypted EXCEPT
                                !.eccCipherText = Some(k.eccCipherText),
                                !.mlkemCipherText = Some(k.mlkemCipherText),
                                !.C = Some([algorithm |-> symmetricAlgo,
                                            wrappedKey |-> k.wrappedKey])]])
  ELSE IF keyAlgo \in algosWithV3CleartextSessionKeyAlgorithm
  THEN IF keyAlgo # publicKey.pqc_mlkem_x25519
          /\ ~IsNull(symmetricAlgo) /\ Truthy(Val(symmetricAlgo)) /\ ~isAES(Val(symmetricAlgo))
       THEN [err |-> "X25519 and X448 keys can only encrypt AES session keys",
             encrypted |-> NoEncrypted]
       ELSE [err |-> "ok",
             encrypted |-> [NoEncrypted EXCEPT
                              !.ephemeralPublicKey =
                                 Some(getRandomBytes(getCurvePayloadSize(keyAlgo).size, r)),
                              !.C = Some([algorithm |-> symmetricAlgo,
                                          wrappedKey |-> aesKWWrap(publicParams + r, data)])]]
  ELSE IF keyAlgo = publicKey.aead
  THEN IF IsNull(privateParams)
       THEN [err |-> "Cannot encrypt with symmetric key missing private parameters",
             encrypted |-> NoEncrypted]
       ELSE With(getRandomBytes(getAEADMode(aeadEnum.gcm).ivLength, r), LAMBDA iv :
              [err |-> "ok",
               encrypted |-> [NoEncrypted EXCEPT
                                !.aeadMode = Some(aeadEnum.gcm),
                                !.iv = Some(iv),
                                !.c = Some(aeadEncrypt(Val(privateParams), data, iv, <<>>))]])
  ELSE [err |-> "ok", encrypted |-> NoEncrypted]

\* publicKeyDecrypt(keyAlgo, publicKeyParams, privateKeyParams,
\* sessionKeyParams, fingerprint, randomPayload)
publicKeyDecrypt(keyAlgo, publicKeyParams, privateKeyParams, sessionKeyParams, randomPayload) ==
  IF keyAlgo \in {publicKey.rsaEncrypt, publicKey.rsaEncryptSign}
  THEN IF IsNull(sessionKeyParams.c) THEN [err |-> "TypeError", bytes |-> <<>>]
       ELSE pkcs1Decrypt(Val(sessionKeyParams.c), privateKeyParams, randomPayload)
  ELSE IF keyAlgo = publicKey.elgamal
  THEN IF IsNull(sessionKeyParams.c1) \/ IsNull(sessionKeyParams.c2)
       THEN [err |-> "TypeError", bytes |-> <<>>]
       ELSE pkcs1Decrypt(Val(sessionKeyParams.c2), privateKeyParams, randomPayload)
  ELSE IF keyAlgo = publicKey.ecdh
  THEN IF IsNull(sessionKeyParams.C) \/ IsNull(sessionKeyParams.V)
       THEN [err |-> "TypeError", bytes |-> <<>>]
       ELSE aesKWUnwrap(privateKeyParams + At(Val(sessionKeyParams.V), 0),
                        Val(sessionKeyParams.C).wrappedKey)
  ELSE IF keyAlgo = publicKey.pqc_mlkem_x25519
  THEN IF IsNull(sessionKeyParams.C) \/ IsNull(sessionKeyParams.eccCipherText)
          \/ IsNull(sessionKeyParams.mlkemCipherText)
       THEN [err |-> "TypeError", bytes |-> <<>>]
       ELSE kemDecrypt(keyAlgo, Val(sessionKeyParams.eccCipherText),
                       Val(sessionKeyParams.mlkemCipherText),
                       pqcKemPrivateParams(privateKeyParams).eccSecretKey,
                       pqcKemPublicParams(publicKeyParams).eccPublicKey,
                       pqcKemPrivateParams(privateKeyParams).mlkemSecretKey,
                       pqcKemPublicParams(publicKeyParams).mlkemPublicKey,
                       Val(sessionKeyParams.C).wrappedKey)
  ELSE IF keyAlgo \in algosWithV3CleartextSessionKeyAlgorithm
  THEN IF IsNull(sessionKeyParams.C) \/ IsNull(sessionKeyParams.ephemeralPublicKey)
       THEN [err |-> "TypeError", bytes |-> <<>>]
       ELSE IF keyAlgo # publicKey.pqc_mlkem_x25519
               /\ ~IsNull(Val(sessionKeyParams.C).algorithm)
               /\ ~isAES(Val(Val(sessionKeyParams.C).algorithm))
       THEN [err |-> "AES session key expected", bytes |-> <<>>]
       ELSE aesKWUnwrap(privateKeyParams + At(Val(sessionKeyParams.ephemeralPublicKey), 0),
                        Val(sessionKeyParams.C).wrappedKey)
  ELSE IF keyAlgo = publicKey.aead
  THEN IF IsNull(sessionKeyParams.c) \/ IsNull(sessionKeyParams.iv)
          \/ IsNull(sessionKeyParams.aeadMode)
       THEN [err |-> "TypeError", bytes |-> <<>>]
       ELSE IF getAEADMode(Val(sessionKeyParams.aeadMode)).err # "ok"
       THEN [err |-> getAEADMode(Val(sessionKeyParams.aeadMode)).err, bytes |-> <<>>]
       ELSE With(aeadDecrypt(privateKeyParams, Val(sessionKeyParams.c),
                             Val(sessionKeyParams.iv), <<>>),
                 LAMBDA d : [err |-> d.err, bytes |-> d.val])
  ELSE [err |-> "Unknown public key encryption algorithm.", bytes |-> <<>>]

\* the packet after new PublicKeyEncryptedSessionKeyPacket()
NewPKESK ==
  [version |-> Null, publicKeyID |-> <<>>, publicKeyVersion |-> Null,
   publicKeyFingerprint |-> Null, publicKeyAlgorithm |-> Null, sessionKey |-> Null,
   sessionKeyAlgorithm |-> Null, encrypted |-> NoEncrypted]

\* KeyID.wildcard(): eight zero bytes
wildcard == Fill(8, 0)

\* KeyID.read(bytes): the first eight bytes
keyIDRead(bytes) == Subarray(bytes, 0, 8)

\* PublicKeyEncryptedSessionKeyPacket.fromObject({ version,
\* encryptionKeyPacket, anonymousRecipient, sessionKey, sessionKeyAlgorithm })
fromObject(version, encryptionKeyPacket, anonymousRecipient, sessionKey, sessionKeyAlgorithm) ==
  IF version # 3 /\ version # 6
  THEN [pkt |-> NewPKESK, err |-> "Unsupported PKESK version"]
  ELSE [pkt |-> [NewPKESK EXCEPT !.version = Some(version),
                                 !.publicKeyVersion =
                                    IF version = 6 /\ ~anonymousRecipient
                                    THEN Some(encryptionKeyPacket.version) ELSE @,
                                 !.publicKeyFingerprint =
                                    IF version = 6 /\ ~anonymousRecipient
                                    THEN Some(encryptionKeyPacket.fingerprint) ELSE @,
                                 !.publicKeyID =
                                    IF anonymousRecipient THEN wildcard
                                    ELSE encryptionKeyPacket.keyID,
                                 !.publicKeyAlgorithm = Some(encryptionKeyPacket.algorithm),
                                 !.sessionKey = Some(sessionKey),
                                 !.sessionKeyAlgorithm = sessionKeyAlgorithm],
        err |-> "ok"]

\* read(), lines 135-143: the algorithm and the encrypted session key
\* parameters the bytes parse to are stored in the packet p0
pkeskReadParams(p0, publicKeyAlgorithm, encrypted) ==
  With([p0 EXCEPT !.publicKeyAlgorithm = Some(publicKeyAlgorithm),
                  !.encrypted = encrypted],
       LAMBDA p :
    IF publicKeyAlgorithm \notin algosWithV3CleartextSessionKeyAlgorithm
    THEN [pkt |-> p, err |-> "ok"]
    ELSE IF IsNull(encrypted.C) THEN [pkt |-> p, err |-> "TypeError"]
    ELSE IF p0.version = Some(3)
    THEN IF IsNull(Val(encrypted.C).algorithm)
            \/ Val(Val(encrypted.C).algorithm) \notin symmetricValues
         THEN [pkt |-> p, err |-> "Invalid enum value."]
         ELSE [pkt |-> [p EXCEPT !.sessionKeyAlgorithm = Val(encrypted.C).algorithm],
               err |-> "ok"]
    ELSE IF ~IsNull(Val(encrypted.C).algorithm)
    THEN [pkt |-> p, err |-> "Unexpected cleartext symmetric algorithm"]
    ELSE [pkt |-> p, err |-> "ok"])

\* read(bytes) on a new packet, from the fields the bytes parse to: the
\* version, the algorithm and the encrypted session key parameters
pkeskRead(version, publicKeyAlgorithm, encrypted) ==
  With([NewPKESK EXCEPT !.version = Some(version)], LAMBDA p0 :
    IF version # 3 /\ version # 6
    THEN [pkt |-> p0, err |-> "Version of the PKESK packet is unsupported."]
    ELSE pkeskReadParams(p0, publicKeyAlgorithm, encrypted))

\* ECDHSymkey.read and ShortByteString.read: a length octet and that many
\* bytes
readLengthPrefixed(bytes, message) ==
  IF Len(bytes) >= 1 /\ Len(bytes) >= 1 + bytes[1]
  THEN [err |-> "ok", data |-> Subarray(bytes, 1, 1 + bytes[1])]
  ELSE [err |-> message, data |-> <<>>]

\* ECDHXSymmetricKey.read: a length octet; the symmetric algorithm octet is
\* there when the length is odd; the wrapped key
readECDHXSymmetricKey(bytes) ==
  With(At(bytes, 0), LAMBDA followLength :
    IF followLength = Undefined
    THEN [err |-> "Input array too short", C |-> Null]
    ELSE With(IF followLength % 2 = 1 THEN 2 ELSE 1, LAMBDA offset :
      With(readExactSubarray(bytes, offset, offset + followLength - (followLength % 2)),
           LAMBDA wrappedKey :
        IF wrappedKey.err # "ok" THEN [err |-> wrappedKey.err, C |-> Null]
        ELSE [err |-> "ok",
              C |-> Some([algorithm |-> IF followLength % 2 = 1 THEN Some(At(bytes, 1))
                                        ELSE Null,
                          wrappedKey |-> wrappedKey.val])])))

\* ECDHXSymmetricKey.write
writeECDHXSymmetricKey(C) ==
  (IF ~IsNull(C.algorithm) /\ Truthy(Val(C.algorithm))
   THEN << (Len(C.wrappedKey) + 1) % 256, Val(C.algorithm) >>
   ELSE << Len(C.wrappedKey) % 256 >>) \o C.wrappedKey

\* parseEncSessionKeyParams(algo, bytes)
parseEncSessionKeyParams(algo, bytes) ==
  IF algo \in {publicKey.rsaEncrypt, publicKey.rsaEncryptSign}
  THEN With(readMPI(bytes), LAMBDA c :
         [err |-> c.err,
          encrypted |-> IF c.err = "ok" THEN [NoEncrypted EXCEPT !.c = Some(c.val)]
                        ELSE NoEncrypted])
  ELSE IF algo = publicKey.elgamal
  THEN With(readMPI(bytes), LAMBDA c1 :
         IF c1.err # "ok" THEN [err |-> c1.err, encrypted |-> NoEncrypted]
         ELSE With(readMPI(SubarrayFrom(bytes, Len(c1.val) + 2)), LAMBDA c2 :
           IF c2.err # "ok" THEN [err |-> c2.err, encrypted |-> NoEncrypted]
           ELSE [err |-> "ok",
                 encrypted |-> [NoEncrypted EXCEPT !.c1 = Some(c1.val),
                                                   !.c2 = Some(c2.val)]]))
  ELSE IF algo = publicKey.ecdh
  THEN With(readMPI(bytes), LAMBDA V :
         IF V.err # "ok" THEN [err |-> V.err, encrypted |-> NoEncrypted]
         ELSE With(readLengthPrefixed(SubarrayFrom(bytes, Len(V.val) + 2),
                                      "Invalid symmetric key"),
                   LAMBDA C :
           IF C.err # "ok" THEN [err |-> C.err, encrypted |-> NoEncrypted]
           ELSE [err |-> "ok",
                 encrypted |-> [NoEncrypted EXCEPT
                                  !.V = Some(V.val),
                                  !.C = Some([algorithm |-> Null,
                                              wrappedKey |-> C.data])]]))
  ELSE IF algo \in {publicKey.x25519, publicKey.x448}
  THEN With(readExactSubarray(bytes, 0, getCurvePayloadSize(algo).size),
            LAMBDA ephemeralPublicKey :
         IF ephemeralPublicKey.err # "ok"
         THEN [err |-> ephemeralPublicKey.err, encrypted |-> NoEncrypted]
         ELSE With(readECDHXSymmetricKey(SubarrayFrom(bytes, Len(ephemeralPublicKey.val))),
                   LAMBDA C :
           IF C.err # "ok" THEN [err |-> C.err, encrypted |-> NoEncrypted]
           ELSE [err |-> "ok",
                 encrypted |-> [NoEncrypted EXCEPT
                                  !.ephemeralPublicKey = Some(ephemeralPublicKey.val),
                                  !.C = C.C]]))
  ELSE IF algo = publicKey.aead
  THEN With(At(bytes, 0), LAMBDA aeadMode :
         IF aeadMode \notin {aeadEnum.eax, aeadEnum.ocb, aeadEnum.gcm}
         THEN [err |-> "Invalid enum value.", encrypted |-> NoEncrypted]
         ELSE With(getAEADMode(aeadMode).ivLength, LAMBDA ivLength :
           With(readLengthPrefixed(SubarrayFrom(bytes, 1 + ivLength),
                                   "Invalid octet string"),
                LAMBDA c :
             IF c.err # "ok" THEN [err |-> c.err, encrypted |-> NoEncrypted]
             ELSE [err |-> "ok",
                   encrypted |-> [NoEncrypted EXCEPT
                                    !.aeadMode = Some(aeadMode),
                                    !.iv = Some(Subarray(bytes, 1, 1 + ivLength)),
                                    !.c = Some(c.data)]])))
  ELSE IF algo = publicKey.pqc_mlkem_x25519
  THEN With(readExactSubarray(bytes, 0, getCurvePayloadSize(publicKey.x25519).size),
            LAMBDA eccCipherText :
         IF eccCipherText.err # "ok"
         THEN [err |-> eccCipherText.err, encrypted |-> NoEncrypted]
         ELSE With(readExactSubarray(bytes, Len(eccCipherText.val),
                                     Len(eccCipherText.val) + mlkemCipherTextSize),
                   LAMBDA mlkemCipherText :
           IF mlkemCipherText.err # "ok"
           THEN [err |-> mlkemCipherText.err, encrypted |-> NoEncrypted]
           ELSE With(readECDHXSymmetricKey(
                       SubarrayFrom(bytes, Len(eccCipherText.val) + Len(mlkemCipherText.val))),
                     LAMBDA C :
             IF C.err # "ok" THEN [err |-> C.err, encrypted |-> NoEncrypted]
             ELSE [err |-> "ok",
                   encrypted |-> [NoEncrypted EXCEPT
                                    !.eccCipherText = Some(eccCipherText.val),
                                    !.mlkemCipherText = Some(mlkemCipherText.val),
                                    !.C = C.C]])))
  ELSE [err |-> "Unknown public key encryption algorithm.", encrypted |-> NoEncrypted]

\* serializeParams(algo, params) of one byte-array parameter: as it is for
\* the algorithms with a native representation, as an MPI for the others
serializeUint8Array(algo, param) ==
  IF IsNull(param) THEN [err |-> "ok", bytes |-> <<>>]
  ELSE IF algo \in algosWithNativeRepresentation
  THEN [err |-> "ok", bytes |-> Val(param)]
  ELSE uint8ArrayToMPI(Val(param))

\* serializeParams(algo, params) of the encrypted session key parameters,
\* whose fields are in the order parseEncSessionKeyParams and
\* publicKeyEncrypt create them in; a field that is no byte array writes
\* itself
serializeEncSessionKeyParams(algo, encrypted) ==
  With(<< IF IsNull(encrypted.aeadMode) THEN [err |-> "ok", bytes |-> <<>>]
          ELSE [err |-> "ok", bytes |-> << Val(encrypted.aeadMode) >>],
          serializeUint8Array(algo, encrypted.iv),
          IF algo = publicKey.aead /\ ~IsNull(encrypted.c)
          THEN [err |-> "ok", bytes |-> << Len(Val(encrypted.c)) % 256 >> \o Val(encrypted.c)]
          ELSE serializeUint8Array(algo, encrypted.c),
          serializeUint8Array(algo, encrypted.c1),
          serializeUint8Array(algo, encrypted.c2),
          serializeUint8Array(algo, encrypted.V),
          serializeUint8Array(algo, encrypted.ephemeralPublicKey),
          serializeUint8Array(algo, encrypted.eccCipherText),
          serializeUint8Array(algo, encrypted.mlkemCipherText),
          IF IsNull(encrypted.C) THEN [err |-> "ok", bytes |-> <<>>]
          ELSE IF algo = publicKey.ecdh
          THEN [err |-> "ok",
                bytes |-> << Len(Val(encrypted.C).wrappedKey) % 256 >>
                          \o Val(encrypted.C).wrappedKey]
          ELSE [err |-> "ok", bytes |-> writeECDHXSymmetricKey(Val(encrypted.C))] >>,
       LAMBDA orderedParams :
    IF \E i \in 1..Len(orderedParams) : orderedParams[i].err # "ok"
    THEN [err |-> orderedParams[CHOOSE i \in 1..Len(orderedParams) :
                                  /\ orderedParams[i].err # "ok"
                                  /\ \A j \in 1..(i - 1) : orderedParams[j].err = "ok"].err,
          bytes |-> <<>>]
    ELSE [err |-> "ok",
          bytes |-> orderedParams[1].bytes \o orderedParams[2].bytes \o orderedParams[3].bytes
                    \o orderedParams[4].bytes \o orderedParams[5].bytes
                    \o orderedParams[6].bytes \o orderedParams[7].bytes
                    \o orderedParams[8].bytes \o orderedParams[9].bytes
                    \o orderedParams[10].bytes])

\* a read() that takes the key ID of every key version from the high-order
\* end of the fingerprint
readRecipient_highOrder(p0, bytes) ==
  IF p0.version = Some(6)
  THEN With(At(bytes, 1), LAMBDA versionAndFingerprintLength :
         IF Truthy(versionAndFingerprintLength)
         THEN With(Subarray(bytes, 3, 3 + versionAndFingerprintLength - 1),
                   LAMBDA publicKeyFingerprint :
                [pkt |-> [p0 EXCEPT
                            !.publicKeyVersion = Some(At(bytes, 2)),
                            !.publicKeyFingerprint = Some(publicKeyFingerprint),
                            !.publicKeyID = keyIDRead(publicKeyFingerprint)],
                 offset |-> 3 + versionAndFingerprintLength - 1])
         ELSE [pkt |-> [p0 EXCEPT !.publicKeyID = wildcard], offset |-> 2])
  ELSE With(keyIDRead(Subarray(bytes, 1, 9)), LAMBDA publicKeyID :
         [pkt |-> [p0 EXCEPT !.publicKeyID = publicKeyID],
          offset |-> 1 + Len(publicKeyID)])

\* read(), lines 109-133: the recipient of a packet whose version was read;
\* offset is where the algorithm octet is
readRecipient(p0, bytes) ==
  IF p0.version = Some(6)
  THEN With(At(bytes, 1), LAMBDA versionAndFingerprintLength :
         IF Truthy(versionAndFingerprintLength)
         THEN With(Subarray(bytes, 3, 3 + versionAndFingerprintLength - 1),
                   LAMBDA publicKeyFingerprint :
                [pkt |-> [p0 EXCEPT
                            !.publicKeyVersion = Some(At(bytes, 2)),
                            !.publicKeyFingerprint = Some(publicKeyFingerprint),
                            !.publicKeyID =
                               IF At(bytes, 2) >= 5 THEN keyIDRead(publicKeyFingerprint)
                               ELSE keyIDRead(TakeLast(publicKeyFingerprint, 8))],
                 offset |-> 3 + versionAndFingerprintLength - 1])
         ELSE [pkt |-> [p0 EXCEPT !.publicKeyID = wildcard], offset |-> 2])
  ELSE With(keyIDRead(Subarray(bytes, 1, 9)), LAMBDA publicKeyID :
         [pkt |-> [p0 EXCEPT !.publicKeyID = publicKeyID],
          offset |-> 1 + Len(publicKeyID)])

\* read(bytes) on a new packet
pkeskReadBytes(bytes) ==
  With([NewPKESK EXCEPT !.version = Some(At(bytes, 0))], LAMBDA p0 :
    IF p0.version # Some(3) /\ p0.version # Some(6)
    THEN [pkt |-> p0, err |-> "Version of the PKESK packet is unsupported."]
    ELSE With(readRecipient(p0, bytes), LAMBDA h :
      With(At(bytes, h.offset), LAMBDA publicKeyAlgorithm :
        With(parseEncSessionKeyParams(publicKeyAlgorithm,
                                      SubarrayFrom(bytes, h.offset + 1)),
             LAMBDA e :
          IF e.err # "ok"
          THEN [pkt |-> [h.pkt EXCEPT !.publicKeyAlgorithm = Some(publicKeyAlgorithm)],
                err |-> e.err]
          ELSE pkeskReadParams(h.pkt, publicKeyAlgorithm, e.encrypted)))))

\* write()
pkeskWrite(pkt) ==
  With(serializeEncSessionKeyParams(toUint8(pkt.publicKeyAlgorithm), pkt.encrypted),
       LAMBDA params :
    IF params.err # "ok" THEN [err |-> params.err, bytes |-> <<>>]
    ELSE [err |-> "ok",
          bytes |-> << toUint8(pkt.version) >>
                    \o (IF pkt.version = Some(6)
                        THEN IF ~IsNull(pkt.publicKeyFingerprint)
                             THEN << (Len(Val(pkt.publicKeyFingerprint)) + 1) % 256,
                                     toUint8(pkt.publicKeyVersion) >>
                                  \o Val(pkt.publicKeyFingerprint)
                             ELSE << 0 >>
                        ELSE pkt.publicKeyID)
                    \o << toUint8(pkt.publicKeyAlgorithm) >>
                    \o params.bytes])

\* encrypt(key); r is what the random generator returns
pkeskEncrypt(pkt, key, r) ==
  IF IsNull(pkt.publicKeyAlgorithm) \/ Val(pkt.publicKeyAlgorithm) \notin publicKeyValues
  THEN [pkt |-> pkt, err |-> "Invalid enum value."]
  ELSE With(IF pkt.version = Some(3) THEN pkt.sessionKeyAlgorithm ELSE Null,
            LAMBDA sessionKeyAlgorithm :
    IF IsNull(pkt.sessionKey) THEN [pkt |-> pkt, err |-> "TypeError"]
    ELSE With(encodeSessionKey(Val(pkt.version), Val(pkt.publicKeyAlgorithm),
                               sessionKeyAlgorithm, Val(pkt.sessionKey)),
              LAMBDA encoded :
      IF encoded.err # "ok" THEN [pkt |-> pkt, err |-> encoded.err]
      ELSE With(publicKeyEncrypt(Val(pkt.publicKeyAlgorithm), sessionKeyAlgorithm,
                                 key.publicParams,
                                 IF Val(pkt.publicKeyAlgorithm) = publicKey.aead
                                 THEN key.privateParams ELSE Null,
                                 encoded.bytes, r),
                LAMBDA e :
             IF e.err # "ok" THEN [pkt |-> pkt, err |-> e.err]
             ELSE [pkt |-> [pkt EXCEPT !.encrypted = e.encrypted], err |-> "ok"])))

\* a decrypt() that stores what was decoded without the v3 size check and
\* stores the decoded algorithm whatever the version
pkeskSetSessionKey_unchecked(pkt, decoded) ==
  [pkt |-> [pkt EXCEPT !.sessionKey = Some(decoded.sessionKey),
                       !.sessionKeyAlgorithm = decoded.sessionKeyAlgorithm],
   err |-> "ok"]

\* decrypt(), lines 216-228: the fields after the payload is decoded
pkeskSetSessionKey(pkt, decoded) ==
  IF pkt.version = Some(3)
  THEN With([pkt EXCEPT !.sessionKeyAlgorithm =
                          IF Val(pkt.publicKeyAlgorithm) \notin algosWithV3CleartextSessionKeyAlgorithm
                          THEN decoded.sessionKeyAlgorithm ELSE @],
            LAMBDA p :
         IF IsNull(p.sessionKeyAlgorithm)
            \/ getCipherParams(Val(p.sessionKeyAlgorithm)).err # "ok"
         THEN [pkt |-> p, err |-> "Unsupported cipher algorithm"]
         ELSE IF Len(decoded.sessionKey) # getCipherParams(Val(p.sessionKeyAlgorithm)).keySize
         THEN [pkt |-> p, err |-> "Unexpected session key size"]
         ELSE [pkt |-> [p EXCEPT !.sessionKey = Some(decoded.sessionKey)], err |-> "ok"])
  ELSE [pkt |-> [pkt EXCEPT !.sessionKey = Some(decoded.sessionKey)], err |-> "ok"]

\* decrypt(key, randomSessionKey); randomSessionKey is Null or Some of a
\* record with sessionKey and sessionKeyAlgorithm
pkeskDecrypt(pkt, key, randomSessionKey) ==
  IF pkt.publicKeyAlgorithm # Some(key.algorithm)
  THEN [pkt |-> pkt, err |-> "Decryption error"]
  ELSE With(IF IsNull(randomSessionKey) THEN [err |-> "ok", payload |-> Null]
            ELSE With(encodeSessionKey(Val(pkt.version), key.algorithm,
                                       Val(randomSessionKey).sessionKeyAlgorithm,
                                       Val(randomSessionKey).sessionKey),
                      LAMBDA e : [err |-> e.err, payload |-> Some(e.bytes)]),
            LAMBDA randomPayload :
    IF randomPayload.err # "ok" THEN [pkt |-> pkt, err |-> randomPayload.err]
    ELSE IF IsNull(key.privateParams) THEN [pkt |-> pkt, err |-> "TypeError"]
    ELSE With(publicKeyDecrypt(key.algorithm, key.publicParams, Val(key.privateParams),
                               pkt.encrypted, randomPayload.payload),
              LAMBDA decryptedData :
      IF decryptedData.err # "ok" THEN [pkt |-> pkt, err |-> decryptedData.err]
      ELSE With(decodeSessionKey(Val(pkt.version), key.algorithm, decryptedData.bytes,
                                 randomSessionKey),
                LAMBDA decoded :
             IF decoded.err # "ok" THEN [pkt |-> pkt, err |-> decoded.err]
             ELSE pkeskSetSessionKey(pkt, decoded))))

(***************************************************************************)
(* The Secret-Key packet as a state machine.                               *)
(***************************************************************************)
VARIABLES
  packet,          \* the fields of the SecretKeyPacket
  origin,          \* where privateParams comes from
  enc,             \* the passphrase and parameters keyMaterial protects
  parsedAsLegacy,  \* the packet was read with parseAEADEncryptedV4KeysAsLegacy
  released         \* the buffers the last call dropped from privateParams,
                   \* as a reference taken before the call reads them

keyVars == << packet, origin, enc, parsedAsLegacy, released >>

\* the session-key packet machine, defined further down
VARIABLES
  pkesk,           \* the fields of the PublicKeyEncryptedSessionKeyPacket
  thrown,          \* the error of the last call on it, "ok" when it returned
  built,           \* what made the packet: "new", "fromObject" or "read"
  wire             \* the bytes read(bytes) was just called with, if it was

pkeskVars == << pkesk, thrown, built, wire >>

\* the message-grammar validators (grammar.ts), defined further down
VARIABLES
  validator,       \* the closure of getAsyncMessageGrammarValidator(): the
                   \* state of grammarCheckPromise, authenticated, logged
  calls,           \* the calls on it that are suspended at their await
  returned,        \* what the call that resumed last returned
  checked          \* the closure and the last call of the validator
                   \* getSyncMessageGrammarValidator() returns

grammarVars == << validator, calls, returned, checked >>

\* the encrypt() calls on the SecretKeyPacket that are under way, defined
\* further down
VARIABLES
  encrypting       \* for each call what it holds in its local variables,
                   \* and the order the calls started in

\* no encrypt() was called
NoCall == [pc |-> "idle"]
NoEncrypting == [call |-> [id \in {1, 2} |-> NoCall], started |-> <<>>, overlapped |-> FALSE]

\* the closure after getAsyncMessageGrammarValidator()
NewValidator == [promise |-> "pending", authenticated |-> FALSE, logged |-> FALSE]

\* no call has returned yet
NoReturn == [fn |-> "none", order |-> 0, value |-> "undefined"]

\* the closure after getSyncMessageGrammarValidator(), not called yet
NewChecked ==
  [logged |-> FALSE, list |-> <<>>, acceptPartial |-> FALSE, enforceGrammar |-> FALSE,
   thrown |-> "none"]

\* no call was made: how many started, which are suspended, the position
\* of the first markAuthenticated, whether every list so far was valid and
\* partial, whether enforceGrammar was ever on
NoCalls ==
  [started |-> 0, suspended |-> {}, markedAt |-> 0, onlyValidPartial |-> TRUE,
   enforced |-> FALSE]

\* the validators as they are created, and no encrypt() under way
InitGrammar ==
  /\ validator = NewValidator
  /\ calls = NoCalls
  /\ returned = NoReturn
  /\ checked = NewChecked
  /\ encrypting = NoEncrypting

vars == << keyVars, pkeskVars, grammarVars, encrypting >>

Init ==
  /\ packet \in {NewPacket(v, algo) : v \in Versions, algo \in Algorithms}
  /\ origin = "none"
  /\ enc = Null
  /\ parsedAsLegacy = FALSE
  /\ released = Null
  /\ pkesk = NewPKESK
  /\ thrown = "ok"
  /\ built = "new"
  /\ wire = Null
  /\ InitGrammar

Generate(r) ==
  \E g \in {generate(packet, "none", r)} :
    /\ packet' = g.pkt
    /\ origin' = IF g.err = "ok" THEN "generate" ELSE origin
    /\ enc' = IF g.err = "ok" THEN Null ELSE enc
    /\ released' = Null
    /\ UNCHANGED << parsedAsLegacy, pkeskVars >>
    /\ UNCHANGED << grammarVars, encrypting >>

Encrypt(passphrase, config, r) ==
  \E e \in {encrypt(packet, passphrase, config, r)} :
    /\ packet' = e.pkt
    /\ enc' = IF e.err = "ok" /\ ~isDummy(packet)
              THEN Some([pass |-> passphrase, params |-> Val(packet.privateParams)])
              ELSE IF e.pkt # packet THEN Null ELSE enc
    /\ parsedAsLegacy' = IF e.err = "ok" /\ ~isDummy(packet) THEN FALSE ELSE parsedAsLegacy
    /\ released' = Null
    /\ UNCHANGED << origin, pkeskVars >>
    /\ UNCHANGED << grammarVars, encrypting >>

\* where decrypt() takes the parameters from
decryptOrigin(pkt) ==
  IF pkt.s2kUsage = 254 THEN "cfb"
  ELSE IF pkt.isLegacyAEAD = Some(TRUE) THEN "legacyAEAD" ELSE "modernAEAD"

Decrypt(passphrase) ==
  \E d \in {decrypt(packet, passphrase)} :
    /\ packet' = d.pkt
    /\ origin' = IF d.err = "ok" THEN decryptOrigin(packet) ELSE origin
    /\ enc' = IF d.err = "ok" THEN Null ELSE enc
    /\ released' = Null
    /\ UNCHANGED << parsedAsLegacy, pkeskVars >>
    /\ UNCHANGED << grammarVars, encrypting >>

Write ==
  /\ packet' = write(packet).pkt
  /\ UNCHANGED << origin, enc, parsedAsLegacy, released, pkeskVars >>
  /\ UNCHANGED << grammarVars, encrypting >>

\* read(bytes, config) on a fresh packet
ReadInto(bytes, legacy, keep) ==
  \E r \in {read(NewPacket(packet.version, packet.algorithm), bytes, legacy)} :
    /\ packet' = r.pkt
    /\ origin' = IF IsNull(r.pkt.privateParams) THEN "none" ELSE "read"
    /\ enc' = IF keep THEN enc ELSE Null
    /\ parsedAsLegacy' = legacy
    /\ released' = Null
    /\ UNCHANGED pkeskVars
    /\ UNCHANGED << grammarVars, encrypting >>

\* the packet is written and the bytes are read into a fresh packet; the
\* bytes carry keyMaterial unless the packet holds unparseable key material
WriteRead(legacy) ==
  \E w \in {write(packet)} :
    /\ w.err = "ok"
    /\ ReadInto(w.bytes, legacy, IsNull(packet.unparseableKeyMaterial))

ReadCrafted(legacy) ==
  \E bytes \in CraftedBytes(packet.version, packet.algorithm) : ReadInto(bytes, legacy, FALSE)

\* validate() reads the packet and changes no field
Validate ==
  /\ validate(packet).err \in {"ok", "Key is not decrypted", "Key is invalid"}
  /\ UNCHANGED << packet, origin, enc, parsedAsLegacy, released, pkeskVars >>
  /\ UNCHANGED << grammarVars, encrypting >>

MakeDummy ==
  \E m \in {makeDummy(packet)} :
    /\ packet' = m.pkt
    /\ origin' = IF IsNull(m.pkt.privateParams) THEN "none" ELSE origin
    /\ enc' = IF m.pkt # packet THEN Null ELSE enc
    /\ released' = IF ~isDummy(packet) /\ isDecrypted(packet) THEN filledParams(packet)
                   ELSE Null
    /\ UNCHANGED << parsedAsLegacy, pkeskVars >>
    /\ UNCHANGED << grammarVars, encrypting >>

ClearPrivateParams ==
  \E c \in {clearPrivateParams(packet)} :
    /\ packet' = c.pkt
    /\ origin' = IF IsNull(c.pkt.privateParams) THEN "none" ELSE origin
    /\ released' = filledParams(packet)
    /\ UNCHANGED << enc, parsedAsLegacy, pkeskVars >>
    /\ UNCHANGED << grammarVars, encrypting >>

Next ==
  \/ \E r \in Randoms : Generate(r)
  \/ \E passphrase \in Passphrases, config \in Configs, r \in Randoms :
       Encrypt(passphrase, config, r)
  \/ \E passphrase \in Passphrases : Decrypt(passphrase)
  \/ Write
  \/ \E legacy \in LegacyFlags(packet.version) : WriteRead(legacy)
  \/ \E legacy \in LegacyFlags(packet.version) : ReadCrafted(legacy)
  \/ Validate
  \/ MakeDummy
  \/ ClearPrivateParams

Spec == Init /\ [][Next]_vars

(***************************************************************************)
(* The session-key packet as a state machine.                              *)
(***************************************************************************)
PKESKVersions == {3, 6}
PKESKAlgorithms ==
  {publicKey.rsaEncryptSign, publicKey.elgamal, publicKey.ecdh, publicKey.aead,
   publicKey.x25519, publicKey.dsa}

\* a decrypted key packet of the recipient; its parameters are the number k
RecipientKey(algo, k) ==
  [algorithm |-> algo, version |-> 4, publicParams |-> k, privateParams |-> Some(k),
   fingerprint |-> Fill(12, k) \o Fill(8, 16 + k), keyID |-> Fill(8, 16 + k)]
RecipientKeys ==
  {RecipientKey(algo, 1) : algo \in PKESKAlgorithms}
    \cup {RecipientKey(publicKey.rsaEncryptSign, 2), RecipientKey(publicKey.pqc_mlkem_x25519, 1)}

\* session keys of 7, 16 and 32 bytes
SessionKeyLengths == {7, 16, 32}
SessionKeys == {Fill(n, 170) : n \in SessionKeyLengths}
CipherAlgos == {Null, Some(symmetric.aes128), Some(symmetric.aes256)}

SessionKeyObject(sessionKey, sessionKeyAlgorithm) ==
  [sessionKey |-> sessionKey, sessionKeyAlgorithm |-> sessionKeyAlgorithm]

\* the randomSessionKey argument: absent, or a bogus key
RandomSessionKeys ==
  {Null,
   Some(SessionKeyObject(Fill(16, 255), Some(symmetric.aes128))),
   Some(SessionKeyObject(Fill(32, 255), Some(symmetric.aes256))),
   Some(SessionKeyObject(Fill(16, 255), Null)),
   Some(SessionKeyObject(Fill(7, 255), Some(symmetric.aes128)))}

\* payloads a sender may encrypt to the recipient instead of an encoded
\* session key: an unknown cipher code under a valid checksum, a wrong
\* checksum, a 7-byte key whose checksum covers the cipher code, and
\* payloads too short to hold a checksum
CraftedPayloads ==
  {<< 200 >> \o Fill(16, 170) \o writeChecksum(Fill(16, 170)),
   << symmetric.aes128 >> \o Fill(16, 170) \o << 0, 1 >>,
   << symmetric.aes128 >> \o Fill(7, 170)
      \o writeChecksum(<< symmetric.aes128 >> \o Fill(7, 170)),
   << 0, 0 >>, << 5 >>, <<>>}

\* encrypted session key parameters a reader may find in a packet
CraftedEncrypted(algo) ==
  {publicKeyEncrypt(algo, Null, 1, Some(1), payload, 1).encrypted : payload \in CraftedPayloads}
    \cup {publicKeyEncrypt(algo, Some(c), 1, Some(1), Fill(16, 170), 1).encrypted :
            c \in {symmetric.aes128, symmetric.cast5}}
    \cup {[NoEncrypted EXCEPT !.c = Some(<< 1, 2, 3 >>), !.iv = Some(Fill(12, 1)),
                              !.c1 = Some(<< 1 >>), !.c2 = Some(<< 1, 2, 3 >>),
                              !.V = Some(<< 1 >>),
                              !.aeadMode = Some(aeadEnum.gcm),
                              !.ephemeralPublicKey = Some(<< 1 >>),
                              !.C = Some([algorithm |-> Null, wrappedKey |-> << 1, 2, 3 >>])]}

\* the recipient fields of a packet body: a key ID for v3; for v6 the
\* length octet alone, or the length, the key version and the fingerprint of
\* a v4 or a v6 key
WireRecipients(version) ==
  IF version = 3 THEN {<< 1, 2, 3, 4, 5, 6, 7, 8 >>, Fill(8, 0)}
  ELSE {<< 0 >>,
        << 21, 4 >> \o [i \in 1..20 |-> i],
        << 33, 6 >> \o [i \in 1..32 |-> 100 + i]}

\* the encrypted session key fields of a packet body, by algorithm: MPIs
\* with their exact bit length, length-prefixed strings, points of the
\* curve's size
WireParams(version, algo) ==
  IF algo = publicKey.rsaEncryptSign THEN {<< 0, 17, 1, 2, 3 >>, << 0, 8, 255 >>}
  ELSE IF algo = publicKey.elgamal THEN {<< 0, 1, 1, 0, 17, 1, 2, 3 >>}
  ELSE IF algo = publicKey.ecdh THEN {<< 0, 3, 4 >> \o << 2, 9, 9 >>}
  ELSE IF algo = publicKey.x25519
  THEN {Fill(32, 7) \o (IF version = 3 THEN << 5, symmetric.aes128 >> ELSE << 4 >>)
          \o << 1, 2, 3, 4 >>}
  ELSE IF algo = publicKey.aead
  THEN {<< aeadEnum.gcm >> \o Fill(12, 1) \o << 3, 1, 2, 3 >>,
        << aeadEnum.ocb >> \o Fill(15, 1) \o << 0 >>}
  ELSE IF algo = publicKey.pqc_mlkem_x25519
  THEN {Fill(32, 7) \o Fill(mlkemCipherTextSize, 8)
          \o (IF version = 3 THEN << 3, symmetric.aes256 >> ELSE << 2 >>) \o << 1, 2 >>}
  ELSE {}

WireAlgorithms ==
  {publicKey.rsaEncryptSign, publicKey.elgamal, publicKey.ecdh, publicKey.x25519,
   publicKey.aead, publicKey.pqc_mlkem_x25519}

\* the well-formed bodies read
WellFormedBodies ==
  UNION {{<< version >> \o recipient \o << algo >> \o params :
            recipient \in WireRecipients(version), params \in WireParams(version, algo)} :
         version \in PKESKVersions, algo \in WireAlgorithms}

\* other bodies a reader may be given: no byte at all, versions that are not
\* supported, a body cut after the version, an algorithm that does not
\* encrypt, a cleartext cipher code in a v6 body, bytes after the last
\* field, and an MPI whose bit length is not exact
MalformedBodies ==
  {<<>>, << 3 >>, << 6 >>,
   << 4 >> \o Fill(8, 1) \o << publicKey.rsaEncryptSign, 0, 8, 255 >>,
   << 2 >> \o Fill(8, 1) \o << publicKey.rsaEncryptSign, 0, 8, 255 >>,
   << 3 >> \o Fill(8, 1) \o << publicKey.dsa, 0, 8, 255 >>,
   << 6, 0, publicKey.x25519 >> \o Fill(32, 7) \o << 5, symmetric.aes128, 1, 2, 3, 4 >>,
   << 3 >> \o Fill(8, 1) \o << publicKey.rsaEncryptSign, 0, 8, 255, 77 >>,
   << 3 >> \o Fill(8, 1) \o << publicKey.rsaEncryptSign, 0, 24, 1, 2, 3 >>,
   << 3 >> \o Fill(8, 1) \o << publicKey.rsaEncryptSign, 0, 24, 1 >>}

FromObject(version, key, anonymousRecipient, sessionKey, sessionKeyAlgorithm) ==
  \E f \in {fromObject(version, key, anonymousRecipient, sessionKey, sessionKeyAlgorithm)} :
    /\ pkesk' = f.pkt
    /\ thrown' = f.err
    /\ built' = "fromObject"
    /\ wire' = Null
    /\ UNCHANGED keyVars
    /\ UNCHANGED << grammarVars, encrypting >>

\* read() of a packet whose recipient is not looked at
PKESKRead(version, algo, encrypted) ==
  \E p \in {pkeskRead(version, algo, encrypted)} :
    /\ pkesk' = p.pkt
    /\ thrown' = p.err
    /\ built' = "read"
    /\ wire' = Null
    /\ UNCHANGED keyVars
    /\ UNCHANGED << grammarVars, encrypting >>

\* read(bytes) on a new packet
PKESKReadBytes(bytes) ==
  \E p \in {pkeskReadBytes(bytes)} :
    /\ pkesk' = p.pkt
    /\ thrown' = p.err
    /\ built' = "read"
    /\ wire' = Some(bytes)
    /\ UNCHANGED keyVars
    /\ UNCHANGED << grammarVars, encrypting >>

\* write() and read() of the bytes into a new packet
PKESKWriteRead ==
  /\ built = "fromObject" /\ thrown = "ok" /\ pkesk.encrypted # NoEncrypted
  /\ \E w \in {pkeskWrite(pkesk)} : w.err = "ok" /\ PKESKReadBytes(w.bytes)

PKESKEncrypt(key, r) ==
  /\ pkesk.publicKeyAlgorithm = Some(key.algorithm)
  /\ \E e \in {pkeskEncrypt(pkesk, key, r)} :
       /\ pkesk' = e.pkt
       /\ thrown' = e.err
       /\ wire' = Null
       /\ UNCHANGED << built, keyVars >>
       /\ UNCHANGED << grammarVars, encrypting >>

PKESKDecrypt(key, randomSessionKey) ==
  /\ ~IsNull(pkesk.version)
  /\ thrown \notin {"Version of the PKESK packet is unsupported.", "TypeError",
                    "Invalid enum value.", "Unexpected cleartext symmetric algorithm"}
       \/ built # "read"
  /\ \E d \in {pkeskDecrypt(pkesk, key, randomSessionKey)} :
       /\ pkesk' = d.pkt
       /\ thrown' = d.err
       /\ wire' = Null
       /\ UNCHANGED << built, keyVars >>
       /\ UNCHANGED << grammarVars, encrypting >>

InitPKESK ==
  /\ packet = NewPacket(4, publicKey.rsaEncryptSign)
  /\ origin = "none"
  /\ enc = Null
  /\ parsedAsLegacy = FALSE
  /\ released = Null
  /\ pkesk = NewPKESK
  /\ thrown = "ok"
  /\ built = "new"
  /\ wire = Null
  /\ InitGrammar

NextPKESK ==
  \/ \E version \in PKESKVersions, key \in RecipientKeys, anonymousRecipient \in BOOLEAN,
        sessionKey \in SessionKeys, sessionKeyAlgorithm \in CipherAlgos :
       FromObject(version, key, anonymousRecipient, sessionKey, sessionKeyAlgorithm)
  \/ \E version \in PKESKVersions, algo \in PKESKAlgorithms :
       \E encrypted \in CraftedEncrypted(algo) : PKESKRead(version, algo, encrypted)
  \/ \E bytes \in WellFormedBodies \cup MalformedBodies : PKESKReadBytes(bytes)
  \/ PKESKWriteRead
  \/ \E key \in RecipientKeys, r \in Randoms : PKESKEncrypt(key, r)
  \/ \E key \in RecipientKeys, randomSessionKey \in RandomSessionKeys :
       PKESKDecrypt(key, randomSessionKey)

SpecPKESK == InitPKESK /\ [][NextPKESK]_vars

(***************************************************************************)
(* Properties of the Secret-Key packet.                                    *)
(***************************************************************************)
\* bin without its leading zero bytes
stripLeadingZeros(bin) == SubarrayFrom(bin, leadingNonZero(bin, 0))

\* the parameters a serialization of params parses back to: an MPI loses
\* its leading zero bytes, a native parameter is kept as it is
reparsed(algo, params) ==
  [i \in 1..Len(params) |->
     IF algo \in algosWithNativeRepresentation THEN params[i]
     ELSE Param(params[i].name, stripLeadingZeros(params[i].val))]

\* keyMaterial protects parameters under a passphrase and the packet is in
\* the encrypted state
Locked == enc # Null /\ packet.isEncrypted = Some(TRUE) /\ ~isDummy(packet)

\* C1: once encrypt(p) has protected the parameters and the packet is in
\* the encrypted state (after clearPrivateParams(), or after write() and
\* read() into a fresh packet with parseAEADEncryptedV4KeysAsLegacy off),
\* decrypt(p) succeeds, leaves the packet decrypted and restores the
\* parameters: byte for byte the native ones, the MPIs without their leading
\* zero bytes.
C1_RoundTrip ==
  (Locked /\ ~parsedAsLegacy)
    => \E d \in {decrypt(packet, Val(enc).pass)} :
         /\ d.err = "ok"
         /\ d.pkt.privateParams = Some(reparsed(packet.algorithm, Val(enc).params))
         /\ isDecrypted(d.pkt)

C4_ModernAEADIntegrity ==
  /\ (packet.usedModernAEAD = Some(TRUE) /\ ~IsNull(packet.privateParams))
       => origin = "modernAEAD"
  /\ (isDecrypted(packet) /\ ~isDummy(packet) /\ origin # "modernAEAD")
       => \E v \in {validateParams(packet.algorithm, packet.publicParams, packet.privateParams)} :
            (v.err # "ok" \/ ~v.valid) => validate(packet).err = "Key is invalid"

C5_ModeWitness(u) ==
  /\ Locked /\ ~parsedAsLegacy
  /\ packet.s2kUsage = u
  /\ decrypt(packet, Val(enc).pass).err = "ok"
C5_WitnessCFB == C5_ModeWitness(254)

\* C6: encrypt on a packet that is neither gnu-dummy nor decrypted fails,
\* decrypt on a decrypted packet that is no gnu-dummy fails, and on a
\* gnu-dummy packet encrypt returns normally and decrypt returns false; none
\* of these calls changes a field of the packet.
C6_StateGuards ==
  \A passphrase \in Passphrases :
    /\ \A config \in Configs, r \in Randoms :
         \E e \in {encrypt(packet, passphrase, config, r)} :
           /\ (~isDummy(packet) /\ ~isDecrypted(packet))
                => (e.err = "Key packet is already encrypted" /\ e.pkt = packet)
           /\ isDummy(packet) => (e.err = "ok" /\ e.pkt = packet)
    /\ \E d \in {decrypt(packet, passphrase)} :
         /\ (~isDummy(packet) /\ isDecrypted(packet))
              => (d.err \notin {"ok", "false"} /\ d.pkt = packet)
         /\ isDummy(packet) => (d.err = "false" /\ d.pkt = packet)

\* a decrypted packet that encrypt has protected, on which decrypt is
\* refused although its key material could be decrypted
C6_Witness ==
  /\ ~isDummy(packet) /\ isDecrypted(packet)
  /\ IsNull(packet.unparseableKeyMaterial)
  /\ ~IsNull(packet.keyMaterial) /\ packet.s2kUsage = 253
  /\ decrypt(packet, 1).err = "Key packet is already decrypted."
\* a gnu-dummy packet made from a packet that held private parameters
C6_WitnessDummy == isDummy(packet) /\ origin = "generate"
\* a protected packet in the encrypted state
C6_WitnessEncrypted == Locked /\ encrypt(packet, 1, Config(FALSE, aeadEnum.gcm, "iterated"), 1).pkt = packet

(***************************************************************************)
(* Properties of the session-key packet.                                   *)
(***************************************************************************)
\* the recipient keys whose algorithm is the packet's
MatchingKeys == {key \in RecipientKeys : pkesk.publicKeyAlgorithm = Some(key.algorithm)}

\* the supplied randomSessionKey arguments
SuppliedRandomKeys == RandomSessionKeys \ {Null}

\* the packet holds encrypted session key parameters of version 3 or 6
Readable ==
  ~IsNull(pkesk.version) /\ ~IsNull(pkesk.publicKeyAlgorithm) /\ pkesk.encrypted # NoEncrypted

\* what publicKeyDecrypt returns to decrypt(key, randomSessionKey)
decryptedDataOf(key, randomSessionKey) ==
  publicKeyDecrypt(key.algorithm, key.publicParams, Val(key.privateParams), pkesk.encrypted,
                   IF IsNull(randomSessionKey) THEN Null
                   ELSE Some(encodeSessionKey(Val(pkesk.version), key.algorithm,
                                              Val(randomSessionKey).sessionKeyAlgorithm,
                                              Val(randomSessionKey).sessionKey).bytes))

\* the random key has the length its algorithm asks for
WellFormedRandomKey(randomSessionKey) ==
  /\ ~IsNull(Val(randomSessionKey).sessionKeyAlgorithm)
  /\ getCipherParams(Val(Val(randomSessionKey).sessionKeyAlgorithm)).err = "ok"
  /\ Len(Val(randomSessionKey).sessionKey)
       = getCipherParams(Val(Val(randomSessionKey).sessionKeyAlgorithm)).keySize

C8_UniformDecryptionError ==
  Readable =>
    \A key \in MatchingKeys :
      key.algorithm \in checksummedAlgos
        => \E data \in {decryptedDataOf(key, Null)} :
             data.err = "ok"
               => decodeSessionKey(Val(pkesk.version), key.algorithm, data.bytes, Null).err
                    \in {"ok", "Decryption error"}

\* C9: what encodeSessionKey makes of a session key and a cipher code of the
\* symmetric enum, decodeSessionKey turns back into the session key, with
\* the cipher code for version 3 and null for version 6 and for X25519, X448
\* and ML-KEM, whose payload is the session key itself; encrypt() of a
\* version 6 packet hands no cipher code to publicKeyEncrypt.
C9_EncodingRoundTrip ==
  (built = "fromObject" /\ ~IsNull(pkesk.sessionKey)
     /\ Val(pkesk.publicKeyAlgorithm) \in checksummedAlgos \cup algosWithV3CleartextSessionKeyAlgorithm)
    => \A cipherAlgo \in symmetricValues, keyAlgo \in {Val(pkesk.publicKeyAlgorithm)},
          version \in {Val(pkesk.version)}, sessionKey \in {Val(pkesk.sessionKey)} :
         \E e \in {encodeSessionKey(version, keyAlgo, Some(cipherAlgo), sessionKey)} :
         \E d \in {decodeSessionKey(version, keyAlgo, e.bytes, Null)} :
           /\ e.err = "ok" /\ d.err = "ok"
           /\ d.sessionKey = sessionKey
           /\ d.sessionKeyAlgorithm
                = IF version = 3 /\ keyAlgo \in checksummedAlgos THEN Some(cipherAlgo) ELSE Null
           /\ keyAlgo \in algosWithV3CleartextSessionKeyAlgorithm => e.bytes = sessionKey
           /\ (version = 6 /\ keyAlgo \in checksummedAlgos)
                => e.bytes = sessionKey \o TakeLast(e.bytes, 2)
           /\ (version = 6 /\ keyAlgo \in algosWithV3CleartextSessionKeyAlgorithm)
                => \A key \in MatchingKeys, r \in Randoms :
                     \E x \in {pkeskEncrypt(pkesk, key, r)} :
                       x.err = "ok" /\ Val(x.pkt.encrypted.C).algorithm = Null

\* the session key a successful decrypt stores has the key size of the
\* stored algorithm, which is a member of the symmetric enum
V3SessionKeyChecked(p) ==
  /\ ~IsNull(p.sessionKeyAlgorithm)
  /\ Val(p.sessionKeyAlgorithm) \in symmetricValues
  /\ getCipherParams(Val(p.sessionKeyAlgorithm)).err = "ok"
  /\ Len(Val(p.sessionKey)) = getCipherParams(Val(p.sessionKeyAlgorithm)).keySize

\* C10 as stated: after a successful decrypt of a version 3 packet
\* sessionKeyAlgorithm is in the symmetric enum and the session key has its
\* key size; after a successful decrypt of a version 6 packet
\* sessionKeyAlgorithm is null.
C10_AfterDecryptAsStated ==
  Readable =>
    \A key \in MatchingKeys, randomSessionKey \in RandomSessionKeys :
      \E d \in {pkeskDecrypt(pkesk, key, randomSessionKey)} :
        d.err = "ok"
          => /\ pkesk.version = Some(3) => V3SessionKeyChecked(d.pkt)
             /\ pkesk.version = Some(6) => IsNull(d.pkt.sessionKeyAlgorithm)

\* C10 (amended): after a successful decrypt of a version 3 packet
\* sessionKeyAlgorithm is in the symmetric enum and the session key has its
\* key size, the algorithm being the one decodeSessionKey returns for RSA,
\* ElGamal, ECDH and AEAD and the one the packet held before for X25519,
\* X448 and ML-KEM; a successful decrypt of a version 6 packet leaves
\* sessionKeyAlgorithm as it was, which is null on a packet that read()
\* filled and the caller's value on a packet that fromObject() built.
C10_AfterDecrypt ==
  Readable =>
    /\ (built = "read" /\ thrown = "ok" /\ pkesk.version = Some(6))
         => IsNull(pkesk.sessionKeyAlgorithm)
    /\ \A key \in MatchingKeys, randomSessionKey \in RandomSessionKeys :
         \E d \in {pkeskDecrypt(pkesk, key, randomSessionKey)} :
           d.err = "ok"
             => /\ pkesk.version = Some(3)
                     => /\ V3SessionKeyChecked(d.pkt)
                        /\ d.pkt.sessionKeyAlgorithm
                             = IF key.algorithm \in algosWithV3CleartextSessionKeyAlgorithm
                               THEN pkesk.sessionKeyAlgorithm
                               ELSE decodeSessionKey(3, key.algorithm,
                                                     decryptedDataOf(key, randomSessionKey).bytes,
                                                     randomSessionKey).sessionKeyAlgorithm
                /\ pkesk.version = Some(6)
                     => d.pkt.sessionKeyAlgorithm = pkesk.sessionKeyAlgorithm

\* a version 3 packet read from bytes after decrypt stored a session key
C10_Witness ==
  /\ built = "read" /\ thrown = "ok"
  /\ pkesk.version = Some(3)
  /\ pkesk.sessionKey = Some(Fill(16, 170))
  /\ pkesk.sessionKeyAlgorithm = Some(symmetric.aes128)
\* a version 6 packet read from bytes after decrypt stored a session key
C10_WitnessV6 ==
  /\ built = "read" /\ thrown = "ok"
  /\ pkesk.version = Some(6)
  /\ pkesk.sessionKey = Some(Fill(32, 170))
  /\ IsNull(pkesk.sessionKeyAlgorithm)

(***************************************************************************)
(* Properties of the session-key packet on the wire.                       *)
(***************************************************************************)
\* C11: for every well-formed v3 or v6 body, read(bytes) succeeds and write()
\* of the packet read reproduces the bytes; read restores the version, the
\* recipient and the algorithm; a v6 body with a zero version-and-fingerprint
\* length is an anonymous recipient (wildcard key ID, no key version, no
\* fingerprint), written back with a single 0 octet; a v6 key ID is the
\* first 8 fingerprint bytes for key version >= 5 and the last 8 below; any
\* version byte other than 3 or 6 is rejected as unsupported.
C11_WireRoundTrip ==
  (built = "read" /\ ~IsNull(wire))
    => \E bytes \in {Val(wire)} :
         /\ bytes \in WellFormedBodies => thrown = "ok"
         /\ At(bytes, 0) \notin {3, 6}
              => thrown = "Version of the PKESK packet is unsupported."
         /\ (thrown = "ok" /\ bytes \notin MalformedBodies)
              => /\ pkeskWrite(pkesk) = [err |-> "ok", bytes |-> bytes]
                 /\ pkesk.version = Some(bytes[1])
                 /\ bytes[1] = 3
                      => /\ pkesk.publicKeyID = SubSeq(bytes, 2, 9)
                         /\ IsNull(pkesk.publicKeyVersion)
                         /\ IsNull(pkesk.publicKeyFingerprint)
                         /\ pkesk.publicKeyAlgorithm = Some(bytes[10])
                 /\ (bytes[1] = 6 /\ bytes[2] = 0)
                      => /\ pkesk.publicKeyID = wildcard
                         /\ IsNull(pkesk.publicKeyVersion)
                         /\ IsNull(pkesk.publicKeyFingerprint)
                         /\ pkesk.publicKeyAlgorithm = Some(bytes[3])
                 /\ (bytes[1] = 6 /\ bytes[2] # 0)
                      => \E fingerprint \in {SubSeq(bytes, 4, 2 + bytes[2])} :
                           /\ pkesk.publicKeyVersion = Some(bytes[3])
                           /\ pkesk.publicKeyFingerprint = Some(fingerprint)
                           /\ pkesk.publicKeyID =
                                IF bytes[3] >= 5 THEN SubSeq(fingerprint, 1, 8)
                                ELSE SubSeq(fingerprint, Len(fingerprint) - 7,
                                            Len(fingerprint))
                           /\ pkesk.publicKeyAlgorithm = Some(bytes[3 + bytes[2]])

\* a v6 body naming a v4 key by its fingerprint was read
C11_Witness ==
  /\ built = "read" /\ ~IsNull(wire) /\ thrown = "ok"
  /\ Val(wire) \in WellFormedBodies
  /\ pkesk.version = Some(6) /\ pkesk.publicKeyVersion = Some(4)
  /\ pkesk.publicKeyID = [i \in 1..8 |-> 12 + i]

\* a v6 body of an anonymous recipient was read
C11_WitnessAnonymous ==
  /\ built = "read" /\ ~IsNull(wire) /\ thrown = "ok"
  /\ Val(wire) \in WellFormedBodies
  /\ pkesk.version = Some(6) /\ IsNull(pkesk.publicKeyFingerprint)

\* a packet that fromObject built and encrypt filled was written and read
C11_WitnessWritten ==
  /\ built = "read" /\ ~IsNull(wire) /\ thrown = "ok"
  /\ Val(wire) \notin WellFormedBodies \cup MalformedBodies
(***************************************************************************)
(* Properties of packets whose protection fields do not parse.             *)
(***************************************************************************)
\* C12: if reading the S2K, cipher or IV fields of a secret-key packet with
\* s2kUsage != 0 fails, read succeeds, marks the packet encrypted and keeps
\* the bytes from the s2kUsage octet to the end; write() then emits the
\* public-key prefix followed by exactly those bytes, decrypt fails for every
\* passphrase and isMissingSecretKeyMaterial() is true; with s2kUsage = 0 a
\* parsing error is thrown and the packet holds no unparseable key material.
\* The second conjunct is about the packet as read(), before any generate().
C12_UnparseableTolerance ==
  /\ \A legacy \in LegacyFlags(packet.version) :
       \A bytes \in CraftedBytes(packet.version, packet.algorithm) :
         \E pk \in {readPublicKey(bytes)} :
           \E r \in {read(NewPacket(packet.version, packet.algorithm), bytes, legacy)} :
             /\ pk.err = "ok"
             /\ bytes \in unparseableBytes(packet.version, packet.algorithm)
                          \cup {unknownS2KBytes(packet.version, packet.algorithm)}
                          \cup (IF packet.version = 5 \/ legacy THEN {}
                                ELSE {unknownAEADBytes(packet.version, packet.algorithm)})
                  => /\ r.err = "ok"
                     /\ r.pkt.isEncrypted = Some(TRUE)
                     /\ r.pkt.unparseableKeyMaterial = Some(SubarrayFrom(bytes, pk.read))
                     /\ At(bytes, pk.read) = r.pkt.s2kUsage /\ Truthy(r.pkt.s2kUsage)
                     /\ IsNull(r.pkt.privateParams)
                     /\ write(r.pkt) = [pkt |-> r.pkt, err |-> "ok", bytes |-> bytes]
             /\ ~Truthy(At(bytes, pk.read))
                  => /\ IsNull(r.pkt.unparseableKeyMaterial)
                     /\ r.err = "ok" => r.pkt.isEncrypted = Some(FALSE)
  /\ (~IsNull(packet.unparseableKeyMaterial) /\ origin = "none")
       => /\ packet.isEncrypted = Some(TRUE)
          /\ Truthy(packet.s2kUsage)
          /\ isMissingSecretKeyMaterial(packet)
          /\ write(packet)
               = [pkt |-> packet, err |-> "ok",
                  bytes |-> writePublicKey(packet).bytes \o Val(packet.unparseableKeyMaterial)]
          /\ \A passphrase \in Passphrases :
               decrypt(packet, passphrase)
                 = [pkt |-> packet,
                    err |-> "Key packet cannot be decrypted: unsupported S2K or cipher algo"]

\* a packet with an unknown cipher under s2kUsage 254 was read
C12_Witness ==
  /\ ~IsNull(packet.unparseableKeyMaterial)
  /\ packet.s2kUsage = 254 /\ packet.symmetric = Some(99)
  /\ origin = "none"

\* a packet whose s2kUsage octet is an unknown cipher code was read
C12_WitnessCipherCode ==
  /\ ~IsNull(packet.unparseableKeyMaterial) /\ packet.s2kUsage = 99

\* an unencrypted packet that does not parse was read
C12_WitnessCleartext ==
  /\ packet.s2kUsage = 0 /\ packet.isEncrypted = Some(FALSE) /\ IsNull(packet.privateParams)
  /\ ~IsNull(packet.keyMaterial)
(***************************************************************************)
(* Properties of makeDummy() and clearPrivateParams().                     *)
(***************************************************************************)
\* the states makeDummy() is called in: decrypted (the private parameters
\* are held), encrypted (they are not), unparseable (as read), or already a
\* gnu-dummy; the public parameters are there
DecryptedState(pkt) ==
  /\ isDecrypted(pkt) /\ ~IsNull(pkt.privateParams)
  /\ IsNull(pkt.unparseableKeyMaterial) /\ ~isDummy(pkt)
EncryptedState(pkt) ==
  /\ pkt.isEncrypted = Some(TRUE) /\ IsNull(pkt.privateParams)
  /\ IsNull(pkt.unparseableKeyMaterial) /\ ~isDummy(pkt)
UnparseableState(pkt) ==
  /\ ~IsNull(pkt.unparseableKeyMaterial) /\ IsNull(pkt.privateParams) /\ ~isDummy(pkt)
DummyState(pkt) ==
  /\ isDummy(pkt) /\ IsNull(pkt.privateParams)

\* the bytes of a gnu-dummy packet: the public key, s2kUsage 254, the count
\* of v5 and v6, the cipher, the S2K length of v6 and the gnu-dummy S2K
dummyBytes(pkt) ==
  writePublicKey(pkt).bytes \o << 254 >>
    \o (IF pkt.version = 5 THEN << 7 >> ELSE IF pkt.version = 6 THEN << 8 >> ELSE <<>>)
    \o << symmetric.aes256 >> \o (IF pkt.version = 6 THEN << 6 >> ELSE <<>>)
    \o << 101, 0, 71, 78, 85, 1 >>

C13_WitnessUnparseable ==
  ~IsNull(packet.publicParams) /\ UnparseableState(packet)

\* an encrypted packet is about to be made a dummy
C13_WitnessEncrypted ==
  ~IsNull(packet.publicParams) /\ EncryptedState(packet) /\ ~IsNull(packet.keyMaterial)
\* every buffer of a record of parameters reads all zeros
AllZero(params) ==
  \A i \in 1..Len(params) : params[i].val = Fill(Len(params[i].val), 0)

\* two records have the same buffers: the same names and lengths, in order
SameBuffers(a, b) ==
  /\ Len(a) = Len(b)
  /\ \A i \in 1..Len(a) : a[i].name = b[i].name /\ Len(a[i].val) = Len(b[i].val)

C14_WitnessDummy ==
  /\ ~IsNull(released) /\ isDummy(packet)
(***************************************************************************)
(* C15: bytes left in the decrypted cleartext.                             *)
(***************************************************************************)
\* the cleartext decrypt() obtains with the passphrase holds bytes after the
\* private parameters
TrailingCleartext(pkt, passphrase) ==
  \E c \in {decryptCleartext(pkt, passphrase)} :
    /\ c.err = "ok"
    /\ \E parsed \in {parsePrivateKeyParams(pkt.algorithm, c.val, pkt.publicParams)} :
         parsed.err = "ok" /\ parsed.read < Len(c.val)

\* C15: when the passphrase is correct and bytes remain in the decrypted
\* cleartext after the private parameters, decrypt fails with
\* 'Error reading MPIs' and the packet stays encrypted
C15_TrailingBytesRejected ==
  EncryptedState(packet)
    => \A passphrase \in Passphrases :
         TrailingCleartext(packet, passphrase)
           => \E d \in {decrypt(packet, passphrase)} :
                d.err = "Error reading MPIs" /\ d.pkt = packet

\* what decrypt() does with such a cleartext: it returns normally, stores
\* the parameters parsed from the front of the cleartext and marks the
\* packet decrypted
C15_TrailingBytesIgnored ==
  EncryptedState(packet)
    => \A passphrase \in Passphrases :
         TrailingCleartext(packet, passphrase)
           => \E d \in {decrypt(packet, passphrase)} :
                /\ d.err = "ok"
                /\ d.pkt.isEncrypted = Some(FALSE)
                /\ ~IsNull(d.pkt.privateParams)

\* an encrypted packet whose cleartext has bytes left for some passphrase
C15_StateTrailing ==
  EncryptedState(packet) /\ \E passphrase \in Passphrases : TrailingCleartext(packet, passphrase)
(***************************************************************************)
(* C16: the legacy protection formats are refused.                         *)
(***************************************************************************)
\* C16: on an encrypted, parseable packet whose s2kUsage is neither 253 nor
\* 254, decrypt throws the insecure-format error for every passphrase (the
\* two-byte-hash one for 255, the unsalted-MD5 one otherwise), whether or
\* not the packet holds what a key derivation needs, and leaves the packet
\* as it was, without private parameters
C16_InsecureRefused ==
  (EncryptedState(packet) /\ packet.s2kUsage \notin {253, 254})
    => \A passphrase \in Passphrases :
         \E d \in {decrypt(packet, passphrase)} :
           /\ d.err = IF packet.s2kUsage = 255
                      THEN "Encrypted private key is authenticated using an insecure two-byte hash"
                      ELSE "Private key is encrypted using an insecure S2K function: unsalted MD5"
           /\ d.pkt = packet
           /\ IsNull(d.pkt.privateParams)
           /\ d.pkt.isEncrypted = Some(TRUE)

\* a packet read with s2kUsage 255, its S2K specifier and IV parsed
C16_Witness ==
  /\ EncryptedState(packet) /\ packet.s2kUsage = 255
  /\ ~IsNull(packet.s2k) /\ ~IsNull(packet.keyMaterial)

\* a packet read with a cipher code as s2kUsage: no S2K specifier
C16_WitnessCipherCode ==
  /\ EncryptedState(packet) /\ packet.s2kUsage = symmetric.aes256
  /\ packet.symmetric = Some(symmetric.aes256) /\ IsNull(packet.s2k)
  /\ ~IsNull(packet.keyMaterial)
(***************************************************************************)
(* C17: the S2K constraints of the protection key.                         *)
(***************************************************************************)
S2KSpecifiers ==
  {[type |-> "simple", salt |-> <<>>], [type |-> "salted", salt |-> Fill(8, 1)],
   [type |-> "iterated", salt |-> Fill(8, 1)], [type |-> "argon2", salt |-> Fill(16, 1)]}

\* the aeadMode argument: null, or one of the modes
AEADArguments == {Null} \cup {Some(m) : m \in {aeadEnum.eax, aeadEnum.ocb, aeadEnum.gcm}}

\* the isLegacyAEAD argument
LegacyArguments == {Null, Some(FALSE), Some(TRUE)}

\* encrypt(), lines 401-403 and 413: the key encrypt() derives for the
\* protection fields it has set on pkt
encryptKey(pkt, passphrase) ==
  IF pkt.s2kUsage = 253
  THEN produceEncryptionKey(pkt.version, Val(pkt.s2k), passphrase, Val(pkt.symmetric),
                            pkt.aead, secretKeyTag, pkt.isLegacyAEAD)
  ELSE produceEncryptionKey(pkt.version, Val(pkt.s2k), passphrase, Val(pkt.symmetric),
                            Null, <<>>, Null)

\* decrypt(), lines 446-448: the key decrypt() derives
decryptKey(pkt, passphrase) ==
  produceEncryptionKey(pkt.version, Val(pkt.s2k), passphrase, Val(pkt.symmetric),
                       pkt.aead, secretKeyTag, pkt.isLegacyAEAD)

\* the constraints on one call of the key derivation
S2KConstraints(keyVersion, s2k, passphrase, cipherAlgo, aeadMode, isLegacyAEAD) ==
  \E k \in {produceEncryptionKey(keyVersion, s2k, passphrase, cipherAlgo, aeadMode,
                                  secretKeyTag, isLegacyAEAD)} :
    IF s2k.type = "argon2" /\ IsNull(aeadMode)
    THEN k.err = "Using Argon2 S2K without AEAD is not allowed"
    ELSE IF s2k.type = "simple" /\ keyVersion = 6
    THEN k.err = "Using Simple S2K with version 6 keys is not allowed"
    ELSE /\ k.err = "ok"
         /\ k.key = IF IsNull(aeadMode) \/ keyVersion = 5 \/ isLegacyAEAD = Some(TRUE)
                    THEN s2kProduceKey(s2k, passphrase)
                    ELSE computeHKDF(s2kProduceKey(s2k, passphrase),
                                     secretKeyTag \o << keyVersion, cipherAlgo, Val(aeadMode) >>)

\* the derivation rules of the claim, for the packet's version and for what
\* encrypt() and decrypt() do on the packet
C17_DerivationRules ==
  /\ \A s2k \in S2KSpecifiers, passphrase \in Passphrases,
        cipherAlgo \in {symmetric.aes128, symmetric.aes256},
        aeadMode \in AEADArguments, isLegacyAEAD \in LegacyArguments :
        S2KConstraints(packet.version, s2k, passphrase, cipherAlgo, aeadMode, isLegacyAEAD)
  /\ (DecryptedState(packet) /\ ~isDummy(packet))
       => \A passphrase \in Passphrases \ {0} :
            \E e \in {encrypt(packet, passphrase, Config(FALSE, aeadEnum.gcm, "argon2"), 1)} :
              /\ e.err = "Using Argon2 S2K without AEAD is not allowed"
              /\ e.pkt.privateParams = packet.privateParams
  /\ (EncryptedState(packet) /\ packet.s2kUsage \in {253, 254} /\ ~IsNull(packet.s2k)
        /\ ~IsNull(packet.symmetric) /\ getCipherParams(Val(packet.symmetric)).err = "ok")
       => \A passphrase \in Passphrases :
            /\ S2KConstraints(packet.version, Val(packet.s2k), passphrase,
                              Val(packet.symmetric), packet.aead, packet.isLegacyAEAD)
            /\ \E k \in {decryptKey(packet, passphrase)} :
                 k.err # "ok" => \E d \in {decrypt(packet, passphrase)} :
                                   d.err = k.err /\ d.pkt = packet

\* the key decrypt() derives for the packet that was written after encrypt()
\* and read with the flag legacy is the key encrypt() derived
SameKeyWhenRead(legacy) ==
  \E w \in {write(packet)} :
    /\ w.err = "ok"
    /\ \E r \in {read(NewPacket(packet.version, packet.algorithm), w.bytes, legacy)} :
         /\ r.err = "ok"
         /\ EncryptedState(r.pkt)
         /\ \E ke \in {encryptKey(packet, Val(enc).pass)} :
              ke.err = "ok" /\ decryptKey(r.pkt, Val(enc).pass) = ke

\* encrypt() has just protected the packet, and write() serializes the
\* protected key material
JustEncrypted ==
  /\ ~IsNull(enc) /\ isDecrypted(packet) /\ ~isDummy(packet)
  /\ IsNull(packet.unparseableKeyMaterial)

\* C17 as stated: the derivation rules, and encrypt and decrypt of the same
\* written packet derive the same key
C17_S2KConstraintsAsStated ==
  /\ C17_DerivationRules
  /\ JustEncrypted => \A legacy \in LegacyFlags(packet.version) : SameKeyWhenRead(legacy)

\* C17: Argon2 without an AEAD mode and Simple with version 6 fail; otherwise
\* the key is the S2K output when there is no AEAD mode, the version is 5 or
\* the packet is legacy-AEAD, and its HKDF with info = packetTag ||
\* [keyVersion, cipherAlgo, aeadMode] in the remaining case; encrypt and
\* decrypt of the same written packet derive the same key when the packet is
\* read without parseAEADEncryptedV4KeysAsLegacy
C17_S2KConstraints ==
  /\ C17_DerivationRules
  /\ JustEncrypted => SameKeyWhenRead(FALSE)

\* a version 4 packet protected with modern AEAD: the key is the HKDF output
C17_Witness ==
  /\ JustEncrypted /\ packet.version = 4 /\ packet.s2kUsage = 253
  /\ packet.isLegacyAEAD = Some(FALSE)

\* a packet read with an Argon2 specifier under CFB
C17_WitnessArgon2 ==
  /\ EncryptedState(packet) /\ packet.s2kUsage = 254 /\ ~IsNull(packet.s2k)
  /\ Val(packet.s2k).type = "argon2" /\ IsNull(packet.aead)

\* a version 6 packet read with a Simple specifier under AEAD
C17_WitnessSimple ==
  /\ EncryptedState(packet) /\ packet.version = 6 /\ packet.s2kUsage = 253
  /\ ~IsNull(packet.s2k) /\ Val(packet.s2k).type = "simple"
(***************************************************************************)
(* C18: the key-encryption key of the composite KEM.                       *)
(***************************************************************************)
\* the composite key pair of the recipient
pqcKey == RecipientKey(publicKey.pqc_mlkem_x25519, 1)

\* encrypt() has filled the packet for the composite key
PQCEncrypted ==
  /\ pkesk.publicKeyAlgorithm = Some(publicKey.pqc_mlkem_x25519)
  /\ built = "fromObject" /\ thrown = "ok"
  /\ ~IsNull(pkesk.encrypted.eccCipherText) /\ ~IsNull(pkesk.encrypted.mlkemCipherText)
  /\ ~IsNull(pkesk.encrypted.C)

\* the key shares the recipient recovers from the ciphertexts of the packet
pqcEccShare ==
  eccKemDecaps(publicKey.pqc_mlkem_x25519, Val(pkesk.encrypted.eccCipherText),
               pqcKemPrivateParams(pqcKey.publicParams).eccSecretKey,
               pqcKemPublicParams(pqcKey.publicParams).eccPublicKey).eccKeyShare
pqcMlkemShare ==
  mlKemDecaps(publicKey.pqc_mlkem_x25519, Val(pkesk.encrypted.mlkemCipherText),
              pqcKemPrivateParams(pqcKey.publicParams).mlkemSecretKey).mlkemKeyShare

\* the hashed bytes as the specification gives them
statedKDFInput ==
  << 0, 0, 0, 1 >> \o pqcEccShare \o Val(pkesk.encrypted.eccCipherText)
    \o pqcKemPublicParams(pqcKey.publicParams).eccPublicKey
    \o pqcMlkemShare \o Val(pkesk.encrypted.mlkemCipherText)
    \o pqcKemPublicParams(pqcKey.publicParams).mlkemPublicKey
    \o << publicKey.pqc_mlkem_x25519 >> \o domSep

\* the hashed bytes on the dispatched path
dispatchedKDFInput ==
  pqcMlkemShare \o pqcEccShare \o Val(pkesk.encrypted.eccCipherText)
    \o pqcKemPublicParams(pqcKey.publicParams).eccPublicKey
    \o << publicKey.pqc_mlkem_x25519 >> \o domSep \o << 21 >>

\* the key-encryption keys of the two sides for the packet: encrypt with the
\* randomness of the packet's ciphertexts and decrypt hash the bytes input,
\* agree, and decrypt unwraps the encoded session key
KEKIs(input) ==
  \E e \in {kemEncryptKEK(publicKey.pqc_mlkem_x25519,
                           pqcKemPublicParams(pqcKey.publicParams).eccPublicKey,
                           pqcKemPublicParams(pqcKey.publicParams).mlkemPublicKey,
                           At(Val(pkesk.encrypted.eccCipherText), 0))},
     d \in {kemDecryptKEK(publicKey.pqc_mlkem_x25519,
                           Val(pkesk.encrypted.eccCipherText),
                           Val(pkesk.encrypted.mlkemCipherText),
                           pqcKemPrivateParams(pqcKey.publicParams).eccSecretKey,
                           pqcKemPublicParams(pqcKey.publicParams).eccPublicKey,
                           pqcKemPrivateParams(pqcKey.publicParams).mlkemSecretKey,
                           pqcKemPublicParams(pqcKey.publicParams).mlkemPublicKey)} :
    /\ e.err = "ok" /\ d.err = "ok"
    /\ e.eccCipherText = Val(pkesk.encrypted.eccCipherText)
    /\ e.mlkemCipherText = Val(pkesk.encrypted.mlkemCipherText)
    /\ multiKeyCombineData(publicKey.pqc_mlkem_x25519, pqcMlkemShare, pqcEccShare,
                           Val(pkesk.encrypted.eccCipherText),
                           pqcKemPublicParams(pqcKey.publicParams).eccPublicKey) = input
    /\ e.kek = sha3_256(input)
    /\ d.kek = e.kek
    /\ Val(pkesk.encrypted.C).wrappedKey = aesKWWrap(Sum(e.kek), Val(pkesk.sessionKey))
    /\ \E u \in {publicKeyDecrypt(publicKey.pqc_mlkem_x25519, pqcKey.publicParams,
                                   Val(pqcKey.privateParams), pkesk.encrypted, Null)} :
         u.err = "ok" /\ u.bytes = Val(pkesk.sessionKey)

\* C18 as stated: the key-encryption key is SHA3-256 of counter(0,0,0,1) ||
\* eccShare || eccCt || eccPub || mlkemShare || mlkemCt || mlkemPub || [algo]
\* || "OpenPGPCompositeKDFv1"
C18_KEKAsStated == PQCEncrypted => KEKIs(statedKDFInput)

\* C18: on the dispatched path the key-encryption key is SHA3-256 of
\* mlkemShare || eccShare || eccCt || eccPub || [algo] ||
\* "OpenPGPCompositeKDFv1" || [21], in this order and with no other field;
\* encrypt and decrypt feed the combiner the same fields in the same order,
\* and decrypt unwraps with the key encrypt wrapped with
C18_KEK == PQCEncrypted => KEKIs(dispatchedKDFInput)

\* a version 3 packet encrypted to the composite key
C18_Witness == PQCEncrypted /\ pkesk.version = Some(3)

\* a version 6 packet encrypted to the composite key
C18_WitnessV6 == PQCEncrypted /\ pkesk.version = Some(6)
(***************************************************************************)
(* The parameter codec as a state machine: a key packet whose parameters   *)
(* are generated, then serialized and parsed again.                        *)
(***************************************************************************)
ParamAlgorithms ==
  {1, 2, 3, 16, 17, 18, 19, 22, 25, 26, 27, 28, 101, 102, 105, 107, 99}

\* the curves generateParams is called with for an algorithm
ParamCurves(algo) ==
  CASE algo = 19 -> {curveOIDs.nistP256, curveOIDs.nistP384}
    [] algo = 18 -> {curveOIDs.nistP256, curveOIDs.nistP384, curveOIDs.curve25519Legacy}
    [] algo = 22 -> {curveOIDs.ed25519Legacy}
    [] OTHER     -> {<<>>}

\* the hash (HMAC keys) or cipher (AEAD keys) it is called with
ParamSymmetric(algo) ==
  CASE algo = 101 -> {8, 10}
    [] algo = 102 -> {symmetric.aes128, symmetric.aes256}
    [] OTHER      -> {0}

MaxParamRand == 3

\* the versions of the key packets
ParamVersions == {4, 6}

InitParams ==
  /\ packet \in {NewPacket(v, algo) : v \in ParamVersions, algo \in ParamAlgorithms}
  /\ origin = "none"
  /\ enc = Null
  /\ parsedAsLegacy = FALSE
  /\ released = Null
  /\ pkesk = NewPKESK
  /\ thrown = "ok"
  /\ built = "new"
  /\ wire = Null
  /\ InitGrammar

\* generateParams(algo, bits, oid, symmetric) for the packet's algorithm;
\* thrown holds the error, "ok" when it returned
GenerateParams(oid, symmetricAlgo, r) ==
  \E g \in {generateParamsWith(packet.algorithm, oid, symmetricAlgo, r)} :
    /\ packet' = IF g.err # "ok" THEN packet
                  ELSE [packet EXCEPT !.privateParams = Some(g.privateParams),
                                      !.publicParams = Some(g.publicParams),
                                      !.isEncrypted = Some(FALSE)]
    /\ origin' = IF g.err = "ok" THEN "generate" ELSE origin
    /\ thrown' = g.err
    /\ built' = "generateParams"
    /\ UNCHANGED << enc, parsedAsLegacy, released, pkesk, wire >>
    /\ UNCHANGED << grammarVars, encrypting >>

\* SecretKeyPacket.generate(bits, curve, symmetric)
PacketGenerate(oid, symmetricAlgo, r) ==
  \E g \in {generateWith(packet, oid, symmetricAlgo, r)} :
    /\ packet' = g.pkt
    /\ origin' = IF g.err = "ok" THEN "generate" ELSE origin
    /\ thrown' = g.err
    /\ built' = "generate"
    /\ UNCHANGED << enc, parsedAsLegacy, released, pkesk, wire >>
    /\ UNCHANGED << grammarVars, encrypting >>

\* the public and the private record generateParams returned are serialized
\* and parsed again; wire holds the serialized private record
ParamsRoundTrip ==
  /\ origin \in {"generate", "read"}
  /\ ~IsNull(packet.privateParams) /\ ~IsNull(packet.publicParams)
  /\ \E pub \in {serializeParams(packet.algorithm, packet.publicParams)},
        priv \in {serializeParams(packet.algorithm, packet.privateParams)} :
       /\ pub.err = "ok" /\ priv.err = "ok"
       /\ \E ppub \in {parsePublicKeyParams(packet.algorithm, pub.bytes)} :
            /\ ppub.err = "ok"
            /\ \E ppriv \in {parsePrivateKeyParams(packet.algorithm, priv.bytes,
                                                      Some(ppub.params))} :
                 /\ ppriv.err = "ok"
                 /\ packet' = [packet EXCEPT !.publicParams = Some(ppub.params),
                                             !.privateParams = Some(ppriv.params)]
                 /\ origin' = "read"
                 /\ thrown' = "ok"
                 /\ built' = "parsePrivateKeyParams"
                 /\ wire' = Some(priv.bytes)
                 /\ UNCHANGED << enc, parsedAsLegacy, released, pkesk >>
                 /\ UNCHANGED << grammarVars, encrypting >>

\* the switch of each dispatcher entry point: the codes it has a case for
caseLabels ==
  [publicKeyEncrypt         |-> {2, 1, 16, 18, 25, 26, 102, 105},
   publicKeyDecrypt         |-> {1, 2, 16, 18, 25, 26, 102, 105},
   parsePublicKeyParams     |-> {2, 1, 3, 17, 16, 19, 22, 18, 27, 28, 25, 26, 101, 102, 105, 107},
   parsePrivateKeyParams    |-> {2, 1, 3, 17, 16, 19, 18, 22, 27, 28, 25, 26, 101, 102, 105, 107},
   parseEncSessionKeyParams |-> {2, 1, 16, 18, 25, 26, 102, 105},
   generateParams           |-> {2, 1, 3, 19, 22, 18, 27, 28, 25, 26, 101, 102, 105, 107, 17, 16},
   validateParams           |-> {2, 1, 3, 17, 16, 19, 18, 22, 27, 28, 25, 26, 101, 102, 105, 107},
   sign                     |-> {1, 2, 3, 17, 16, 19, 22, 27, 28, 101, 107},
   verify                   |-> {1, 2, 3, 17, 19, 22, 27, 28, 101, 107},
   parseSignatureParams     |-> {1, 2, 3, 17, 19, 22, 27, 28, 101, 107}]

\* the hash algorithms signatures are made with: SHA-1, SHA-256, SHA-512
SignatureHashes == {2, 8, 10}

\* the digest of the signed data under hashAlgo
hashedOf(hashAlgo) == Fill(getHashByteLength(hashAlgo).size, 5)

\* the bytes the key parsers are called with, besides those a serializer
\* wrote: none, two MPIs, a native key of 32 and of 57 bytes
KeyParamBytes == {<<>>, << 0, 8, 255, 0, 8, 254 >>, Fill(32, 5), Fill(57, 5)}

\* the bytes parseSignatureParams is called with: none, one MPI, two MPIs,
\* a short byte string, 64 bytes, a composite signature
SignatureBytes ==
  {<<>>, << 0, 8, 255 >>, << 0, 8, 255, 0, 8, 254 >>, << 2, 1, 2 >>, Fill(64, 5),
   Fill(64, 5) \o Fill(3309, 5)}

\* the bytes parseEncSessionKeyParams is called with: none, one MPI, an
\* X25519 ephemeral key and wrapped key
EncSessionKeyBytes ==
  {<<>>, << 0, 8, 255 >>, Fill(32, 7) \o << 5, symmetric.aes128, 1, 2, 3, 4 >>}

\* the number that stands for the key material of the packet where the
\* encryption primitives are called, as in the session-key packet machine
keyNumber == 1

\* parsePublicKeyParams(algo, bytes) on its own; origin "parse" marks
\* parameters read from other bytes than those serializeParams wrote
ParsePublicKeyParams(bytes) ==
  \E p \in {parsePublicKeyParams(packet.algorithm, bytes)} :
    /\ packet' = IF p.err # "ok" THEN packet
                  ELSE [packet EXCEPT !.publicParams = Some(p.params),
                                      !.privateParams = Null]
    /\ origin' = IF p.err = "ok" THEN "parse" ELSE origin
    /\ thrown' = p.err
    /\ built' = "parsePublicKeyParams"
    /\ wire' = Some(bytes)
    /\ UNCHANGED << enc, parsedAsLegacy, released, pkesk >>
    /\ UNCHANGED << grammarVars, encrypting >>

\* parsePrivateKeyParams(algo, bytes, publicParams) on its own
ParsePrivateKeyParams(bytes) ==
  /\ ~IsNull(packet.publicParams) \/ packet.algorithm \notin caseLabels.parsePrivateKeyParams
  /\ \E p \in {parsePrivateKeyParams(packet.algorithm, bytes, packet.publicParams)} :
       /\ packet' = IF p.err # "ok" THEN packet
                     ELSE [packet EXCEPT !.privateParams = Some(p.params)]
       /\ origin' = IF p.err = "ok" THEN "parse" ELSE origin
       /\ thrown' = p.err
       /\ built' = "parsePrivateKeyParams"
       /\ wire' = Some(bytes)
       /\ UNCHANGED << enc, parsedAsLegacy, released, pkesk >>
       /\ UNCHANGED << grammarVars, encrypting >>

\* validateParams(algo, publicParams, privateParams); wire holds the
\* answer, 1 for true
ValidateParams ==
  \E v \in {validateParams(packet.algorithm, packet.publicParams, packet.privateParams)} :
    /\ thrown' = v.err
    /\ built' = "validateParams"
    /\ wire' = IF v.err # "ok" THEN Null ELSE Some(<< IF v.valid THEN 1 ELSE 0 >>)
    /\ UNCHANGED << keyVars, pkesk >>
    /\ UNCHANGED << grammarVars, encrypting >>

\* sign(algo, hashAlgo, publicKeyParams, privateKeyParams, data, hashed);
\* released holds the signature parameters
Sign(hashAlgo) ==
  \E g \in {sign(packet.algorithm, hashAlgo, packet.publicParams, packet.privateParams,
                 hashedOf(hashAlgo))} :
    /\ thrown' = g.err
    /\ built' = "sign"
    /\ released' = IF g.err = "ok" THEN Some(g.signature) ELSE Null
    /\ wire' = Null
    /\ UNCHANGED << packet, origin, enc, parsedAsLegacy, pkesk >>
    /\ UNCHANGED << grammarVars, encrypting >>

\* parseSignatureParams(algo, signature); released holds signatureParams
ParseSignatureParams(bytes) ==
  \E p \in {parseSignatureParams(packet.algorithm, bytes)} :
    /\ thrown' = p.err
    /\ built' = "parseSignatureParams"
    /\ released' = IF p.err = "ok" THEN Some(p.params) ELSE Null
    /\ wire' = Some(bytes)
    /\ UNCHANGED << packet, origin, enc, parsedAsLegacy, pkesk >>
    /\ UNCHANGED << grammarVars, encrypting >>

\* verify(algo, hashAlgo, signature, publicParams, privateParams, data,
\* hashed) of the signature parameters in released; wire holds the answer
Verify(hashAlgo) ==
  \E v \in {verify(packet.algorithm, hashAlgo,
                   IF IsNull(released) THEN <<>> ELSE Val(released),
                   packet.publicParams, packet.privateParams, hashedOf(hashAlgo))} :
    /\ thrown' = v.err
    /\ built' = "verify"
    /\ wire' = IF v.err # "ok" THEN Null ELSE Some(<< IF v.valid THEN 1 ELSE 0 >>)
    /\ UNCHANGED << keyVars, pkesk >>
    /\ UNCHANGED << grammarVars, encrypting >>

\* publicKeyEncrypt(keyAlgo, symmetricAlgo, publicParams, privateParams,
\* data, fingerprint); pkesk.encrypted holds what it returns
PublicKeyEncrypt(symmetricAlgo, data, r) ==
  \E e \in {publicKeyEncrypt(packet.algorithm, symmetricAlgo, keyNumber, Some(keyNumber),
                             data, r)} :
    /\ thrown' = e.err
    /\ built' = "publicKeyEncrypt"
    /\ pkesk' = [pkesk EXCEPT !.encrypted = e.encrypted]
    /\ wire' = Null
    /\ UNCHANGED keyVars
    /\ UNCHANGED << grammarVars, encrypting >>

\* parseEncSessionKeyParams(algo, bytes)
ParseEncSessionKeyParams(bytes) ==
  \E p \in {parseEncSessionKeyParams(packet.algorithm, bytes)} :
    /\ thrown' = p.err
    /\ built' = "parseEncSessionKeyParams"
    /\ pkesk' = [pkesk EXCEPT !.encrypted = p.encrypted]
    /\ wire' = Some(bytes)
    /\ UNCHANGED keyVars
    /\ UNCHANGED << grammarVars, encrypting >>

\* publicKeyDecrypt(keyAlgo, publicKeyParams, privateKeyParams,
\* sessionKeyParams, fingerprint, randomPayload) of pkesk.encrypted; wire
\* holds the decrypted bytes
PublicKeyDecrypt ==
  \E d \in {publicKeyDecrypt(packet.algorithm, keyNumber, keyNumber, pkesk.encrypted, Null)} :
    /\ thrown' = d.err
    /\ built' = "publicKeyDecrypt"
    /\ wire' = IF d.err = "ok" THEN Some(d.bytes) ELSE Null
    /\ UNCHANGED << keyVars, pkesk >>
    /\ UNCHANGED << grammarVars, encrypting >>

NextParams ==
  \/ \E oid \in ParamCurves(packet.algorithm),
        symmetricAlgo \in ParamSymmetric(packet.algorithm), r \in 1..MaxParamRand :
       GenerateParams(oid, symmetricAlgo, r)
  \/ \E oid \in ParamCurves(packet.algorithm),
        symmetricAlgo \in ParamSymmetric(packet.algorithm), r \in 1..MaxParamRand :
       PacketGenerate(oid, symmetricAlgo, r)
  \/ ParamsRoundTrip
  \/ \E bytes \in KeyParamBytes : ParsePublicKeyParams(bytes)
  \/ \E bytes \in KeyParamBytes : ParsePrivateKeyParams(bytes)
  \/ ValidateParams
  \/ \E hashAlgo \in SignatureHashes : Sign(hashAlgo)
  \/ \E bytes \in SignatureBytes : ParseSignatureParams(bytes)
  \/ \E hashAlgo \in SignatureHashes : Verify(hashAlgo)
  \/ \E symmetricAlgo \in {Null, Some(symmetric.aes128)}, r \in Randoms :
       PublicKeyEncrypt(symmetricAlgo, Fill(16, 170), r)
  \/ \E bytes \in EncSessionKeyBytes : ParseEncSessionKeyParams(bytes)
  \/ PublicKeyDecrypt

SpecParams == InitParams /\ [][NextParams]_vars

(***************************************************************************)
(* C19: the parameter round trip.                                          *)
(***************************************************************************)
\* the record without the expanded secret key of a composite algorithm
WithoutExcluded(algo, params) ==
  SelectSeq(params, LAMBDA f : f.name \notin excludedFields(algo))

\* the bytes of the serialized fields one after the other, each as
\* serializeParams encodes it
RECURSIVE Concat(_)
Concat(seqs) == IF seqs = <<>> THEN <<>> ELSE seqs[1] \o Concat(Tail(seqs))

\* the round trip of one pair of records
RoundTrips(algo, pub, priv) ==
  \E spub \in {serializeParams(algo, Some(pub))}, spriv \in {serializeParams(algo, Some(priv))} :
    /\ spub.err = "ok" /\ spriv.err = "ok"
    /\ \E ppub \in {parsePublicKeyParams(algo, spub.bytes)} :
         /\ ppub.err = "ok"
         /\ SameParams(ppub.params, pub)
         /\ ppub.read = Len(spub.bytes)
    /\ \E ppriv \in {parsePrivateKeyParams(algo, spriv.bytes, Some(pub))} :
         /\ ppriv.err = "ok"
         /\ SameParams(ppriv.params, priv)
         /\ ppriv.read = Len(spriv.bytes)
    /\ algo \in {105, 107}
         => /\ spriv.bytes = priv[CHOOSE i \in 1..Len(priv) : priv[i].name = "eccSecretKey"].val
                               \o Concat([i \in 1..Len(WithoutExcluded(algo, priv)) - 1 |->
                                            WithoutExcluded(algo, priv)[i + 1].val])
            /\ Len(WithoutExcluded(algo, priv)) = 2
            /\ WithoutExcluded(algo, priv)[1].name = "eccSecretKey"
            /\ WithoutExcluded(algo, priv)[2].name \in {"mlkemSeed", "mldsaSeed"}

C19_WitnessParsed ==
  /\ packet.algorithm = 105 /\ origin = "read" /\ ~IsNull(packet.privateParams)
  /\ Val(packet.privateParams)[2].name = "mlkemSecretKey"

\* a curve secret with a leading zero byte has been serialized as an MPI
\* and parsed again
C19_WitnessCurve ==
  /\ packet.algorithm = 18 /\ origin = "read" /\ ~IsNull(packet.privateParams)
  /\ Field(Val(packet.privateParams), "d")[1] = 0

(***************************************************************************)
(* C20: the dispatchers and the codes they have no case for.               *)
(***************************************************************************)
\* the entry point called last was given a code it has no case for
UnrecognisedCode ==
  built \in DOMAIN caseLabels /\ packet.algorithm \notin caseLabels[built]

\* C20: every dispatcher entry point (publicKeyEncrypt, publicKeyDecrypt,
\* parsePublicKeyParams, parsePrivateKeyParams, parseEncSessionKeyParams,
\* generateParams, validateParams, sign, verify, parseSignatureParams)
\* either handles the algorithm code it is given or fails with an error:
\* none returns normally for a code it has no case for
C20_UnrecognisedCodeFails == UnrecognisedCode => thrown # "ok"

\* C20, the nine entry points besides publicKeyEncrypt: a code without a
\* case makes them throw
C20_OthersFail ==
  (UnrecognisedCode /\ built # "publicKeyEncrypt") => thrown # "ok"

\* C20, publicKeyEncrypt: a code without a case makes it return normally,
\* with an empty list of parameters
C20_EncryptReturnsEmpty ==
  (UnrecognisedCode /\ built = "publicKeyEncrypt")
    => (thrown = "ok" /\ pkesk.encrypted = NoEncrypted)

\* publicKeyEncrypt has been called with a signing-only code
C20_StateEncrypt ==
  UnrecognisedCode /\ built = "publicKeyEncrypt" /\ packet.algorithm = publicKey.ed25519

\* sign has been called with the parameters of an encryption-only key
C20_StateSign ==
  UnrecognisedCode /\ built = "sign" /\ thrown = "Unknown signature algorithm."

(***************************************************************************)
(* C21: the hash-strength gate of sign and verify.                         *)
(***************************************************************************)
\* the registered hash algorithms: MD5, SHA-1, RIPEMD-160, SHA-256,
\* SHA-384, SHA-512, SHA-224, SHA3-256, SHA3-512
GateHashes == {1, 2, 3, 8, 9, 10, 11, 12, 14}

\* the algorithms with a gate
GatedAlgorithms == {22, 27, 28, 107}

\* the digest size the gate asks for, as stated: that of SHA-256 for
\* EdDSA-legacy and Ed25519, of SHA-512 for Ed448, 32 bytes for the composite
statedMinimum(algo) == IF algo = 28 THEN 64 ELSE 32

\* the hash-too-weak error of the algorithm
tooWeak(algo) ==
  CASE algo = 22 -> "Hash algorithm too weak for EdDSALegacy."
    [] algo \in {27, 28} -> "Hash algorithm too weak for EdDSA."
    [] algo = 107 -> "Unexpected hash algorithm for PQC signature: digest size too short"

\* the key parameters of a gated algorithm are there
GatedKey ==
  /\ packet.algorithm \in GatedAlgorithms
  /\ ~IsNull(packet.publicParams) /\ ~IsNull(packet.privateParams)

\* the error of sign under hashAlgo with the parameters of the packet
signError(hashAlgo) ==
  sign(packet.algorithm, hashAlgo, packet.publicParams, packet.privateParams,
       hashedOf(hashAlgo)).err

\* the error of verify under hashAlgo of a signature that has the fields
\* of the algorithm
verifyError(hashAlgo) ==
  verify(packet.algorithm, hashAlgo,
         [i \in 1..2 |-> Param(<< "r", "s" >>[i], << 1 >>)]
           \o << Param("RS", Fill(64, 1)), Param("eccSignature", Fill(64, 1)),
                 Param("mldsaSignature", Fill(3309, 1)) >>,
         packet.publicParams, packet.privateParams, hashedOf(hashAlgo)).err

\* C21: sign and verify reject with the hash-too-weak error every hash
\* whose digest is shorter than the preferred hash of the algorithm
\* (SHA-256 for Ed25519 and EdDSA-legacy, SHA-512 for Ed448) and, for
\* ML-DSA+Ed25519, every hash shorter than 32 bytes; sign accepts a hash
\* exactly when verify accepts it, and every other hash is accepted
C21_HashGateAsStated ==
  GatedKey =>
    \A hashAlgo \in GateHashes :
      /\ getHashByteLength(hashAlgo).size < statedMinimum(packet.algorithm)
           => /\ signError(hashAlgo) = tooWeak(packet.algorithm)
              /\ verifyError(hashAlgo) = tooWeak(packet.algorithm)
      /\ getHashByteLength(hashAlgo).size >= statedMinimum(packet.algorithm)
           => signError(hashAlgo) = "ok" /\ verifyError(hashAlgo) = "ok"

\* C21, what the code does: the gate is as stated for EdDSA-legacy,
\* Ed25519 and the composite; for Ed448 getPreferredHashAlgo throws, and
\* sign and verify reject every hash with its error; sign accepts a hash
\* exactly when verify does
C21_HashGate ==
  GatedKey =>
    \A hashAlgo \in GateHashes :
      /\ (signError(hashAlgo) = "ok") <=> (verifyError(hashAlgo) = "ok")
      /\ packet.algorithm # 28
           => /\ getHashByteLength(hashAlgo).size < 32
                   => /\ signError(hashAlgo) = tooWeak(packet.algorithm)
                      /\ verifyError(hashAlgo) = tooWeak(packet.algorithm)
              /\ getHashByteLength(hashAlgo).size >= 32 => signError(hashAlgo) = "ok"
      /\ packet.algorithm = 28
           => /\ signError(hashAlgo) = "Unknown EdDSA algo"
              /\ verifyError(hashAlgo) = "Unknown EdDSA algo"

\* an Ed448 key whose parameters were parsed
C21_StateEd448 == GatedKey /\ packet.algorithm = 28

\* sign has rejected SHA-1 for an Ed25519 key
C21_StateEd25519 ==
  /\ GatedKey /\ packet.algorithm = 27 /\ built = "sign"
  /\ thrown = "Hash algorithm too weak for EdDSA."

(***************************************************************************)
(* C22: generate and the version of the packet.                            *)
(***************************************************************************)
\* the combinations generate refuses
RefusedGenerate(pkt, oid) ==
  \/ pkt.version = 6 /\ pkt.algorithm = publicKey.ecdh /\ oid = curveOIDs.curve25519Legacy
  \/ pkt.version = 6 /\ pkt.algorithm = publicKey.eddsaLegacy
  \/ pkt.version # 6 /\ pkt.algorithm = publicKey.pqc_mldsa_ed25519

\* C22: generate on a v6 packet with ECDH on curve25519Legacy or with
\* EdDSA-legacy, and on a non-v6 packet with pqc_mldsa_ed25519, fails with
\* the error of the version check and leaves privateParams, publicParams
\* and isEncrypted as they were; every successful generate leaves the
\* packet decrypted with both records set
C22_GenerateVersionCheck ==
  \A oid \in ParamCurves(packet.algorithm),
     symmetricAlgo \in ParamSymmetric(packet.algorithm), r \in 1..MaxParamRand :
    \E g \in {generateWith(packet, oid, symmetricAlgo, r)} :
      /\ RefusedGenerate(packet, oid)
           => /\ g.err \in {"Cannot generate v6 keys of type 'ecc'",
                             "Cannot generate signing keys of type 'pqc'"}
              /\ g.pkt.privateParams = packet.privateParams
              /\ g.pkt.publicParams = packet.publicParams
              /\ g.pkt.isEncrypted = packet.isEncrypted
      /\ g.err = "ok"
           => /\ ~RefusedGenerate(packet, oid)
              /\ isDecrypted(g.pkt)
              /\ ~IsNull(g.pkt.privateParams) /\ ~IsNull(g.pkt.publicParams)
              /\ g.pkt.privateParams
                   = Some(generateParamsWith(packet.algorithm, oid, symmetricAlgo, r).privateParams)

\* generate has refused a v6 EdDSA-legacy packet that holds parameters
C22_Witness ==
  /\ built = "generate" /\ thrown = "Cannot generate v6 keys of type 'ecc'"
  /\ packet.version = 6 /\ packet.algorithm = publicKey.eddsaLegacy
  /\ ~IsNull(packet.privateParams)

\* generate has refused a v4 composite signing key
C22_WitnessPQC ==
  /\ built = "generate" /\ thrown = "Cannot generate signing keys of type 'pqc'"
  /\ packet.version = 4

\* generate has succeeded on a v6 ECDH packet, on another curve
C22_WitnessSuccess ==
  /\ built = "generate" /\ thrown = "ok" /\ packet.version = 6
  /\ packet.algorithm = publicKey.ecdh /\ isDecrypted(packet)

(***************************************************************************)
(* The message grammar (grammar.ts).                                       *)
(***************************************************************************)
\* enums.packet: the packet tags
packetTag ==
  [publicKeyEncryptedSessionKey |-> 1, signature |-> 2, symEncryptedSessionKey |-> 3,
   onePassSignature |-> 4, secretKey |-> 5, publicKey |-> 6, secretSubkey |-> 7,
   compressedData |-> 8, symmetricallyEncryptedData |-> 9, marker |-> 10,
   literalData |-> 11, trust |-> 12, userID |-> 13, publicSubkey |-> 14,
   userAttribute |-> 17, symEncryptedIntegrityProtectedData |-> 18,
   modificationDetectionCode |-> 19, aeadEncryptedData |-> 20, padding |-> 21]

\* tagList.findIndex(tag => tags.has(tag)), -1 when there is none
findIndex(tagList, tags) ==
  IF \E i \in 1..Len(tagList) : tagList[i] \in tags
  THEN (CHOOSE i \in 1..Len(tagList) :
          tagList[i] \in tags /\ \A j \in 1..(i - 1) : tagList[j] \notin tags) - 1
  ELSE 0 - 1

\* util.findLastIndex(tagList, tag => tags.has(tag)), -1 when there is none
findLastIndex(tagList, tags) ==
  IF \E i \in 1..Len(tagList) : tagList[i] \in tags
  THEN (CHOOSE i \in 1..Len(tagList) :
          tagList[i] \in tags /\ \A j \in (i + 1)..Len(tagList) : tagList[j] \notin tags) - 1
  ELSE 0 - 1

isValidLiteralMessage(tagList, acceptPartial) ==
  Len(tagList) = 1 /\ tagList[1] = packetTag.literalData

isValidCompressedMessage(tagList, acceptPartial) ==
  Len(tagList) = 1 /\ tagList[1] = packetTag.compressedData

isValidESKSequence(tagList, acceptPartial) ==
  \A i \in 1..Len(tagList) :
    tagList[i] \in {packetTag.publicKeyEncryptedSessionKey, packetTag.symEncryptedSessionKey}

\* isValidEncryptedMessage that refuses a list without encrypted data
\* unless it is partial
isValidEncryptedMessage_needsData(tagList, acceptPartial) ==
  \E encryptedDataPacketIndex \in
       {findIndex(tagList, {packetTag.aeadEncryptedData, packetTag.symmetricallyEncryptedData,
                            packetTag.symEncryptedIntegrityProtectedData})} :
    IF encryptedDataPacketIndex < 0
    THEN acceptPartial /\ isValidESKSequence(tagList, acceptPartial)
    ELSE /\ encryptedDataPacketIndex = Len(tagList) - 1
         /\ isValidESKSequence(Subarray(tagList, 0, encryptedDataPacketIndex), acceptPartial)

isValidEncryptedMessage(tagList, acceptPartial) ==
  \E encryptedDataPacketIndex \in
       {findIndex(tagList, {packetTag.aeadEncryptedData, packetTag.symmetricallyEncryptedData,
                            packetTag.symEncryptedIntegrityProtectedData})} :
    IF encryptedDataPacketIndex < 0
    THEN isValidESKSequence(tagList, acceptPartial)
    ELSE /\ encryptedDataPacketIndex = Len(tagList) - 1
         /\ isValidESKSequence(Subarray(tagList, 0, encryptedDataPacketIndex), acceptPartial)

\* enums.read(enums.packet, tag) throws
isUnknownPacketTag(tag) == tag \notin {packetTag[f] : f \in DOMAIN packetTag}

\* the tags that may stand anywhere are dropped
normalizedList(notNormalizedList) ==
  SelectSeq(notNormalizedList,
            LAMBDA tag : tag # packetTag.marker /\ tag # packetTag.padding
                         /\ ~isUnknownPacketTag(tag))

RECURSIVE isValidOpenPGPMessage(_, _)
isValidSignedMessage(tagList, acceptPartial) ==
  IF findIndex(tagList, {packetTag.signature}) = 0
  THEN isValidOpenPGPMessage(SubarrayFrom(tagList, 1), acceptPartial)
  ELSE IF findIndex(tagList, {packetTag.onePassSignature}) = 0
  THEN \E correspondingSigPacketIndex \in {findLastIndex(tagList, {packetTag.signature})} :
         IF correspondingSigPacketIndex # Len(tagList) - 1 /\ ~acceptPartial THEN FALSE
         ELSE isValidOpenPGPMessage(
                IF correspondingSigPacketIndex < 0 THEN SubarrayFrom(tagList, 1)
                ELSE Subarray(tagList, 1, correspondingSigPacketIndex),
                acceptPartial)
  ELSE FALSE

isValidOpenPGPMessage(notNormalizedList, acceptPartial) ==
  \/ isValidLiteralMessage(normalizedList(notNormalizedList), acceptPartial)
  \/ isValidCompressedMessage(normalizedList(notNormalizedList), acceptPartial)
  \/ isValidEncryptedMessage(normalizedList(notNormalizedList), acceptPartial)
  \/ isValidSignedMessage(normalizedList(notNormalizedList), acceptPartial)

\* what a call returns when the state of grammarCheckPromise is given:
\* the promise itself, settled
settledValue(promise) == IF promise = "fulfilled" THEN "true" ELSE "GrammarError"

\* util.isPromisePending(promise), sampled when it is called
isPromisePending(promise) == promise = "pending"

\* resolve(true) and reject(error) of a promise: a no-op once it is settled
settle(promise, state) == IF promise = "pending" THEN state ELSE promise

\* markAuthenticated that does not look at the result
markAuthenticated_silent(v) ==
  [validator |-> [v EXCEPT !.authenticated = TRUE], value |-> "undefined"]

\* markAuthenticated(): the closure after the call and what it returns
markAuthenticated(v) ==
  [validator |-> [v EXCEPT !.authenticated = TRUE],
   value |-> IF ~isPromisePending(v.promise) THEN settledValue(v.promise) ELSE "undefined"]

\* the promise after messageGrammarValidatorWithLatentReporting has run
\* the check
promiseAfterCheck(v, list, isPartial, enforceGrammar) ==
  IF isValidOpenPGPMessage(list, isPartial)
  THEN IF ~isPartial THEN settle(v.promise, "fulfilled") ELSE v.promise
  ELSE IF enforceGrammar THEN settle(v.promise, "rejected")
  ELSE IF ~isPartial THEN settle(v.promise, "fulfilled") ELSE v.promise

\* messageGrammarValidatorWithLatentReporting that reports as soon as the
\* result is there
messageGrammarValidatorWithLatentReporting_eager(v, list, isPartial, enforceGrammar) ==
  With(promiseAfterCheck(v, list, isPartial, enforceGrammar), LAMBDA p :
    [validator |-> [v EXCEPT !.promise = p,
                             !.logged = v.logged \/ ~isValidOpenPGPMessage(list, isPartial)],
     value |-> IF ~isPromisePending(p) THEN settledValue(p) ELSE "undefined"])

\* messageGrammarValidatorWithLatentReporting(list, isPartial, config): the
\* closure after the call and what it returns
messageGrammarValidatorWithLatentReporting(v, list, isPartial, enforceGrammar) ==
  With(promiseAfterCheck(v, list, isPartial, enforceGrammar), LAMBDA p :
    [validator |-> [v EXCEPT !.promise = p,
                             !.logged = v.logged \/ ~isValidOpenPGPMessage(list, isPartial)],
     value |-> IF v.authenticated /\ ~isPromisePending(p) THEN settledValue(p)
               ELSE "undefined"])

\* the validator getSyncMessageGrammarValidator() returns, called with
\* (list, acceptPartial, config): its closure and what it throws
syncMessageGrammarValidator(c, list, acceptPartial, enforceGrammar) ==
  [logged |-> IF isValidOpenPGPMessage(list, acceptPartial) \/ enforceGrammar THEN c.logged
              ELSE TRUE,
   list |-> list, acceptPartial |-> acceptPartial, enforceGrammar |-> enforceGrammar,
   thrown |-> IF isValidOpenPGPMessage(list, acceptPartial) THEN "ok"
              ELSE IF enforceGrammar THEN "GrammarError" ELSE "ok"]

(***************************************************************************)
(* The asynchronous validator as a state machine: calls start, run to      *)
(* their await, and resume in any order.                                   *)
(***************************************************************************)
MaxCalls == 4

\* the tag lists the parser reports: a literal message, an encrypted
\* message, session keys only, two literals, a one-pass signed message and
\* one whose signature is still to come, a marker before a literal
GrammarLists ==
  {<< 11 >>, << 1, 18 >>, << 1 >>, << 11, 11 >>, << 4, 11, 2 >>, << 4, 11 >>, << 10, 11 >>}

InitGrammarAsync ==
  /\ packet = NewPacket(4, publicKey.rsaEncryptSign)
  /\ origin = "none"
  /\ enc = Null
  /\ parsedAsLegacy = FALSE
  /\ released = Null
  /\ pkesk = NewPKESK
  /\ thrown = "ok"
  /\ built = "new"
  /\ wire = Null
  /\ InitGrammar

\* messageGrammarValidatorWithLatentReporting is called and runs to its
\* await
StartValidation(list, isPartial, enforceGrammar) ==
  /\ calls.started < MaxCalls
  /\ \E m \in {messageGrammarValidatorWithLatentReporting(validator, list, isPartial,
                                                           enforceGrammar)} :
       /\ validator' = m.validator
       /\ calls' = [calls EXCEPT
                      !.started = @ + 1,
                      !.suspended = @ \cup {[fn |-> "messageGrammarValidatorWithLatentReporting",
                                             order |-> calls.started + 1, value |-> m.value]},
                      !.onlyValidPartial =
                         @ /\ isPartial /\ isValidOpenPGPMessage(list, isPartial),
                      !.enforced = @ \/ enforceGrammar]
  /\ UNCHANGED << returned, checked, keyVars, pkeskVars, encrypting >>

\* markAuthenticated is called and runs to its await
StartMarkAuthenticated ==
  /\ calls.started < MaxCalls
  /\ \E m \in {markAuthenticated(validator)} :
       /\ validator' = m.validator
       /\ calls' = [calls EXCEPT
                      !.started = @ + 1,
                      !.suspended = @ \cup {[fn |-> "markAuthenticated",
                                             order |-> calls.started + 1, value |-> m.value]},
                      !.markedAt = IF @ = 0 THEN calls.started + 1 ELSE @]
  /\ UNCHANGED << returned, checked, keyVars, pkeskVars, encrypting >>

\* a suspended call resumes and returns
Resume(call) ==
  /\ call \in calls.suspended
  /\ calls' = [calls EXCEPT !.suspended = @ \ {call}]
  /\ returned' = call
  /\ UNCHANGED << validator, checked, keyVars, pkeskVars, encrypting >>

NextGrammarAsync ==
  \/ \E list \in GrammarLists, isPartial \in BOOLEAN, enforceGrammar \in BOOLEAN :
       StartValidation(list, isPartial, enforceGrammar)
  \/ StartMarkAuthenticated
  \/ \E call \in calls.suspended : Resume(call)

SpecGrammarAsync == InitGrammarAsync /\ [][NextGrammarAsync]_vars

(***************************************************************************)
(* The synchronous validator as a state machine.                           *)
(***************************************************************************)
MaxTags == 2

\* the tags of the lists: the session-key and encrypted-data packets, a
\* literal, a signature, a marker, padding and a tag that is not registered
GrammarTags == {1, 3, 9, 18, 20, 11, 2, 10, 21, 99}

\* the tags of the longer lists
CoreTags == {1, 3, 18, 10}

\* every list of at most MaxTags of the tags, and every list of one more
\* of the core tags
TagLists ==
  UNION {[1..n -> GrammarTags] : n \in 0..MaxTags} \cup [1..(MaxTags + 1) -> CoreTags]

\* the validator is called
SyncValidate(list, acceptPartial, enforceGrammar) ==
  /\ checked' = syncMessageGrammarValidator(checked, list, acceptPartial, enforceGrammar)
  /\ UNCHANGED << validator, calls, returned, keyVars, pkeskVars, encrypting >>

NextGrammarSync ==
  \E list \in TagLists, acceptPartial \in BOOLEAN, enforceGrammar \in BOOLEAN :
    SyncValidate(list, acceptPartial, enforceGrammar)

SpecGrammarSync == InitGrammarAsync /\ [][NextGrammarSync]_vars

(***************************************************************************)
(* C23  Latent reporting.                                                  *)
(***************************************************************************)
\* the calls whose return value is known: the suspended ones and the one
\* that returned last
knownCalls == calls.suspended \cup {c \in {returned} : c.fn # "none"}

\* C23: no call on the asynchronous validator, messageGrammarValidatorWithLatentReporting
\* or markAuthenticated, returns the grammar result (true or the GrammarError)
\* when it started before markAuthenticated was first invoked: every such
\* call returns undefined, whatever the lists, isPartial and enforceGrammar,
\* in every order of calls and of their returns.
C23_LatentReporting ==
  \A c \in knownCalls :
    (calls.markedAt = 0 \/ c.order < calls.markedAt) => c.value = "undefined"

\* a validation call has returned undefined although the result is settled,
\* markAuthenticated not having been invoked
C23_Witness ==
  /\ calls.markedAt = 0
  /\ validator.promise = "rejected"
  /\ returned.fn = "messageGrammarValidatorWithLatentReporting"
  /\ returned.value = "undefined"

\* the same with the result true
C23_WitnessTrue ==
  /\ calls.markedAt = 0
  /\ validator.promise = "fulfilled"
  /\ returned.fn = "messageGrammarValidatorWithLatentReporting"
  /\ returned.value = "undefined"

(***************************************************************************)
(* C24  The grammar result is not lost.                                    *)
(***************************************************************************)
\* a call that settles the result was made: a non-partial list, or an
\* invalid one under enforceGrammar
SettlingCall(list, isPartial, enforceGrammar) ==
  ~isPartial \/ (enforceGrammar /\ ~isValidOpenPGPMessage(list, isPartial))

\* C24: once markAuthenticated has been invoked and the result is settled,
\* the call that started last returns the settled result; while only valid
\* partial lists have been seen the result is pending and every call
\* returns undefined; with enforceGrammar never on the result is not a
\* rejection.
C24_ResultNotLost ==
  /\ \A c \in knownCalls :
       (c.order = calls.started /\ calls.markedAt # 0 /\ validator.promise # "pending")
         => c.value = settledValue(validator.promise)
  /\ calls.onlyValidPartial =>
       (validator.promise = "pending" /\ \A c \in knownCalls : c.value = "undefined")
  /\ ~calls.enforced => validator.promise # "rejected"

\* markAuthenticated came last, after the result was settled, and
\* returned the rejection
C24_Witness ==
  /\ returned.fn = "markAuthenticated"
  /\ returned.order = calls.started
  /\ returned.order > 1
  /\ returned.value = "GrammarError"

\* the validation came last, after markAuthenticated, and returned true
C24_WitnessValidation ==
  /\ returned.fn = "messageGrammarValidatorWithLatentReporting"
  /\ returned.order = calls.started
  /\ calls.markedAt # 0
  /\ returned.value = "true"

\* valid partial lists only, markAuthenticated invoked: still pending
C24_WitnessPending ==
  /\ calls.onlyValidPartial
  /\ calls.markedAt # 0
  /\ calls.started = MaxCalls
  /\ returned.fn = "markAuthenticated"
  /\ returned.value = "undefined"

(***************************************************************************)
(* C30  The encrypted-message production.                                  *)
(***************************************************************************)
EncryptedDataTags ==
  {packetTag.aeadEncryptedData, packetTag.symmetricallyEncryptedData,
   packetTag.symEncryptedIntegrityProtectedData}

\* the last tag is an encrypted-data packet and every tag before it is a
\* PKESK or an SKESK
EncryptedShape(tagList) ==
  /\ Len(tagList) > 0
  /\ tagList[Len(tagList)] \in EncryptedDataTags
  /\ isValidESKSequence(Subarray(tagList, 0, Len(tagList) - 1), FALSE)

\* the validator has checked, with acceptPartial false and enforceGrammar
\* on, a list that after normalisation holds session-key packets only
CheckedSessionKeysOnly ==
  /\ checked.thrown # "none"
  /\ ~checked.acceptPartial
  /\ checked.enforceGrammar
  /\ isValidESKSequence(normalizedList(checked.list), FALSE)

\* C30 as stated: with acceptPartial false a list is accepted as an
\* encrypted message only if, normalised, it ends in an encrypted-data
\* packet preceded by PKESK and SKESK only; the empty list and a list of
\* session-key packets alone are rejected.
C30_EncryptedMessageAsStated ==
  /\ (checked.thrown # "none" /\ ~checked.acceptPartial
        /\ isValidEncryptedMessage(normalizedList(checked.list), FALSE))
       => EncryptedShape(normalizedList(checked.list))
  /\ CheckedSessionKeysOnly => checked.thrown = "GrammarError"

\* C30, what the code does: a list with an encrypted-data packet is
\* accepted as an encrypted message only in the shape stated; a list
\* without one is accepted whenever it holds session-key packets only.
C30_EncryptedMessage ==
  /\ (checked.thrown # "none" /\ ~checked.acceptPartial
        /\ isValidEncryptedMessage(normalizedList(checked.list), FALSE))
       => \/ EncryptedShape(normalizedList(checked.list))
          \/ isValidESKSequence(normalizedList(checked.list), FALSE)
  /\ CheckedSessionKeysOnly => checked.thrown = "ok"

\* the empty list was accepted
C30_StateEmpty ==
  CheckedSessionKeysOnly /\ checked.list = <<>> /\ checked.thrown = "ok"

\* session-key packets alone were accepted
C30_StateSessionKeys ==
  CheckedSessionKeysOnly /\ checked.list = << 1, 3 >> /\ checked.thrown = "ok"

\* a list in the stated shape was accepted, one with a packet after the
\* encrypted data was refused
C30_StateShape ==
  /\ checked.list = << 10, 1, 18 >> /\ checked.thrown = "ok" /\ checked.enforceGrammar
  /\ ~checked.acceptPartial

(***************************************************************************)
(* C25  A failed encrypt().                                                *)
(***************************************************************************)
\* the protection fields of a packet
protectionFields(pkt) ==
  << pkt.s2k, pkt.s2kUsage, pkt.symmetric, pkt.aead, pkt.iv, pkt.keyMaterial,
     pkt.isLegacyAEAD, pkt.usedModernAEAD >>

\* C25 as stated: a failed encrypt() leaves s2k, s2kUsage, symmetric, aead,
\* iv, keyMaterial, isLegacyAEAD and usedModernAEAD as they were, the packet
\* is still decrypted and write() serializes what it serialized before.
C25_FailedEncryptAsStated ==
  \A passphrase \in Passphrases, config \in Configs, r \in Randoms :
    \E e \in {encrypt(packet, passphrase, config, r)} :
      e.err # "ok" =>
        /\ protectionFields(e.pkt) = protectionFields(packet)
        /\ isDecrypted(e.pkt) = isDecrypted(packet)
        /\ write(e.pkt).bytes = write(packet).bytes

\* C25, what the code does: an encrypt() refused by its guards leaves the
\* packet as it was; one that fails in the key derivation has already set
\* s2k, symmetric, s2kUsage and usedModernAEAD; every failed encrypt()
\* leaves the parameters, isEncrypted and keyMaterial as they were.
C25_FailedEncrypt ==
  \A passphrase \in Passphrases, config \in Configs, r \in Randoms :
    \E e \in {encrypt(packet, passphrase, config, r)} :
      /\ e.err \in {"Key packet is already encrypted",
                    "A non-empty passphrase is required for key encryption."}
           => e.pkt = packet
      /\ e.err = "Using Argon2 S2K without AEAD is not allowed"
           => /\ e.pkt.s2k = Some(newS2KFromConfig(config.s2kType, r))
              /\ e.pkt.symmetric = Some(symmetric.aes256)
              /\ e.pkt.s2kUsage = 254
              /\ e.pkt.usedModernAEAD = Some(FALSE)
              /\ e.pkt.privateParams = packet.privateParams
              /\ e.pkt.isEncrypted = packet.isEncrypted
              /\ e.pkt.iv = packet.iv /\ e.pkt.keyMaterial = packet.keyMaterial
      /\ e.err # "ok"
           => /\ e.pkt.privateParams = packet.privateParams
              /\ e.pkt.isEncrypted = packet.isEncrypted
              /\ e.pkt.keyMaterial = packet.keyMaterial

\* encrypt() failed on a generated packet: it is decrypted, marked as
\* CFB-protected under Argon2 without iv and key material, and write()
\* throws
C25_StateHalfEncrypted ==
  /\ isDecrypted(packet) /\ ~isDummy(packet)
  /\ packet.s2kUsage = 254 /\ ~IsNull(packet.s2k) /\ Val(packet.s2k).type = "argon2"
  /\ IsNull(packet.keyMaterial) /\ IsNull(packet.iv)
  /\ write(packet).err # "ok"

\* encrypt() failed on a packet that was written before: keyMaterial holds
\* the unprotected parameters, and write() throws where it succeeded
C25_StateWrittenBefore ==
  /\ isDecrypted(packet) /\ ~isDummy(packet)
  /\ packet.s2kUsage = 254 /\ ~IsNull(packet.s2k) /\ Val(packet.s2k).type = "argon2"
  /\ packet.keyMaterial = Some(serializeParams(packet.algorithm, packet.privateParams).bytes)
  /\ write(packet).err # "ok"
  /\ write([packet EXCEPT !.s2kUsage = 0]).err = "ok"

(***************************************************************************)
(* encrypt() step by step: a call runs to its next await, and the calls    *)
(* on one packet resume in any order (secret_key.js, lines 373-420).       *)
(***************************************************************************)
\* what the random generator returns to an overlapping call
OverlapRandoms == {1, 2}
\* the configurations of the overlapping calls
OverlapConfigs ==
  { Config(FALSE, aeadEnum.gcm, "iterated"), Config(TRUE, aeadEnum.gcm, "iterated"),
    Config(TRUE, aeadEnum.eax, "argon2") }

\* lines 374-413: encrypt() up to the await of produceEncryptionKey; the
\* packet after it and the local variables of the call
encryptStart(pkt, passphrase, config, r) ==
  IF isDummy(pkt) THEN [pkt |-> pkt, call |-> [pc |-> "done", err |-> "ok"]]
  ELSE IF ~isDecrypted(pkt)
  THEN [pkt |-> pkt, call |-> [pc |-> "failed", err |-> "Key packet is already encrypted"]]
  ELSE IF passphrase = 0
  THEN [pkt |-> pkt,
        call |-> [pc |-> "failed",
                  err |-> "A non-empty passphrase is required for key encryption."]]
  ELSE With([pkt EXCEPT !.s2k = Some(newS2KFromConfig(config.s2kType, r))], LAMBDA p1 :
       With(serializeParams(pkt.algorithm, pkt.privateParams), LAMBDA cleartext :
         IF cleartext.err # "ok"
         THEN [pkt |-> p1, call |-> [pc |-> "failed", err |-> cleartext.err]]
         ELSE IF config.aeadProtect
         THEN With(getAEADMode(config.preferredAEADAlgorithm), LAMBDA mode :
                IF mode.err # "ok"
                THEN [pkt |-> [p1 EXCEPT !.symmetric = Some(symmetric.aes256),
                                         !.s2kUsage = 253,
                                         !.aead = Some(config.preferredAEADAlgorithm)],
                      call |-> [pc |-> "failed", err |-> mode.err]]
                ELSE With([p1 EXCEPT !.symmetric = Some(symmetric.aes256),
                                     !.s2kUsage = 253,
                                     !.aead = Some(config.preferredAEADAlgorithm),
                                     !.isLegacyAEAD = Some(pkt.version = 5),
                                     !.usedModernAEAD = Some(pkt.version # 5)],
                          LAMBDA p :
                       [pkt |-> p,
                        call |-> [pc |-> "key", err |-> "ok", aeadProtect |-> TRUE,
                                  passphrase |-> passphrase, r |-> r,
                                  cleartext |-> cleartext.bytes,
                                  ivLength |-> mode.ivLength,
                                  key |-> produceEncryptionKey(
                                            p.version, Val(p.s2k), passphrase,
                                            Val(p.symmetric), p.aead, secretKeyTag,
                                            p.isLegacyAEAD)]]))
         ELSE With([p1 EXCEPT !.symmetric = Some(symmetric.aes256), !.s2kUsage = 254,
                              !.usedModernAEAD = Some(FALSE)],
                   LAMBDA p :
                [pkt |-> p,
                 call |-> [pc |-> "key", err |-> "ok", aeadProtect |-> FALSE,
                           passphrase |-> passphrase, r |-> r,
                           cleartext |-> cleartext.bytes, ivLength |-> 0,
                           key |-> produceEncryptionKey(p.version, Val(p.s2k), passphrase,
                                                        Val(p.symmetric), Null, <<>>,
                                                        Null)]])))

\* lines 399-401 and 413-418: produceEncryptionKey has returned. With AEAD
\* the call awaits mode(this.symmetric, key); with CFB it sets this.iv and
\* awaits computeDigest
encryptKeyDerived(pkt, c) ==
  IF c.key.err # "ok" THEN [pkt |-> pkt, call |-> [pc |-> "failed", err |-> c.key.err]]
  ELSE IF c.aeadProtect THEN [pkt |-> pkt, call |-> [c EXCEPT !.pc = "mode"]]
  ELSE [pkt |-> [pkt EXCEPT !.iv = Some(getRandomBytes(
                                           getCipherParams(Val(pkt.symmetric)).blockSize,
                                           c.r))],
        call |-> [c EXCEPT !.pc = "digest"]]

\* lines 401-409: mode() has returned; this.iv is set, the associated data
\* is built from the packet as it is now, and the call awaits
\* modeInstance.encrypt
encryptModeReady(pkt, c) ==
  With(IF pkt.isLegacyAEAD = Some(TRUE)
       THEN getRandomBytes(getCipherParams(Val(pkt.symmetric)).blockSize, c.r)
       ELSE getRandomBytes(c.ivLength, c.r),
       LAMBDA iv :
    With(IF pkt.isLegacyAEAD = Some(TRUE) THEN [err |-> "ok", bytes |-> <<>>]
         ELSE With(writePublicKey(pkt), LAMBDA pub :
                [err |-> pub.err, bytes |-> secretKeyTag \o pub.bytes]),
         LAMBDA associateData :
      IF associateData.err # "ok"
      THEN [pkt |-> [pkt EXCEPT !.iv = Some(iv)],
            call |-> [pc |-> "failed", err |-> associateData.err]]
      ELSE [pkt |-> [pkt EXCEPT !.iv = Some(iv)],
            call |-> [pc |-> "cipher", err |-> "ok", passphrase |-> c.passphrase,
                      r |-> c.r,
                      result |-> aeadEncrypt(c.key.key, c.cleartext,
                                             Subarray(iv, 0, c.ivLength),
                                             associateData.bytes)]]))

\* lines 414-418: computeDigest has returned; this.iv is read now, and the
\* call awaits cfb.encrypt
encryptDigestReady(pkt, c) ==
  [pkt |-> pkt,
   call |-> [pc |-> "cipher", err |-> "ok", passphrase |-> c.passphrase, r |-> c.r,
             result |-> cfbEncrypt(c.key.key, c.cleartext \o computeDigestSha1(c.cleartext),
                                   Val(pkt.iv))]]

\* lines 409 and 414: the cipher has returned and this.keyMaterial is set
encryptCipherReady(pkt, c) ==
  [pkt |-> [pkt EXCEPT !.keyMaterial = Some(c.result)],
   call |-> [pc |-> "done", err |-> "ok", passphrase |-> c.passphrase, r |-> c.r]]

\* one call run from its start to its end with no other call between
encryptStepwise(pkt, passphrase, config, r) ==
  With(encryptStart(pkt, passphrase, config, r), LAMBDA s :
    IF s.call.pc # "key" THEN [pkt |-> s.pkt, err |-> s.call.err]
    ELSE With(encryptKeyDerived(s.pkt, s.call), LAMBDA k :
      IF k.call.pc = "failed" THEN [pkt |-> k.pkt, err |-> k.call.err]
      ELSE With(IF k.call.pc = "mode" THEN encryptModeReady(k.pkt, k.call)
                ELSE encryptDigestReady(k.pkt, k.call), LAMBDA m :
        IF m.call.pc = "failed" THEN [pkt |-> m.pkt, err |-> m.call.err]
        ELSE [pkt |-> encryptCipherReady(m.pkt, m.call).pkt, err |-> "ok"])))

\* a call is under way
UnderWay(c) == c.pc \in {"key", "mode", "digest", "cipher"}

\* the packet the calls work on: generated, decrypted
InitOverlap ==
  /\ packet \in {generate(NewPacket(v, algo), "none", 1).pkt :
                   v \in Versions, algo \in Algorithms}
  /\ origin = "generate"
  /\ enc = Null
  /\ parsedAsLegacy = FALSE
  /\ released = Null
  /\ pkesk = NewPKESK
  /\ thrown = "ok"
  /\ built = "new"
  /\ wire = Null
  /\ InitGrammar

\* encrypt(passphrase, config) is called and runs to its first await
EncryptStart(id, passphrase, config, r) ==
  /\ encrypting.call[id].pc = "idle"
  /\ \E s \in {encryptStart(packet, passphrase, config, r)} :
       /\ packet' = s.pkt
       /\ encrypting' =
            [call |-> [encrypting.call EXCEPT ![id] = s.call],
             started |-> Append(encrypting.started, id),
             overlapped |-> encrypting.overlapped
                              \/ \E other \in {1, 2} \ {id} : UnderWay(encrypting.call[other])]
  /\ UNCHANGED << origin, enc, parsedAsLegacy, released, pkeskVars, grammarVars >>

\* a call resumes with its key
EncryptKeyDerived(id) ==
  /\ encrypting.call[id].pc = "key"
  /\ \E s \in {encryptKeyDerived(packet, encrypting.call[id])} :
       /\ packet' = s.pkt
       /\ encrypting' = [encrypting EXCEPT !.call[id] = s.call]
  /\ UNCHANGED << origin, enc, parsedAsLegacy, released, pkeskVars, grammarVars >>

\* a call resumes with its AEAD mode instance
EncryptModeReady(id) ==
  /\ encrypting.call[id].pc = "mode"
  /\ \E s \in {encryptModeReady(packet, encrypting.call[id])} :
       /\ packet' = s.pkt
       /\ encrypting' = [encrypting EXCEPT !.call[id] = s.call]
  /\ UNCHANGED << origin, enc, parsedAsLegacy, released, pkeskVars, grammarVars >>

\* a call resumes with the SHA-1 digest
EncryptDigestReady(id) ==
  /\ encrypting.call[id].pc = "digest"
  /\ \E s \in {encryptDigestReady(packet, encrypting.call[id])} :
       /\ packet' = s.pkt
       /\ encrypting' = [encrypting EXCEPT !.call[id] = s.call]
  /\ UNCHANGED << origin, enc, parsedAsLegacy, released, pkeskVars, grammarVars >>

\* a call resumes with the ciphertext and ends
EncryptCipherReady(id) ==
  /\ encrypting.call[id].pc = "cipher"
  /\ \E s \in {encryptCipherReady(packet, encrypting.call[id])} :
       /\ packet' = s.pkt
       /\ encrypting' = [encrypting EXCEPT !.call[id] = s.call]
  /\ UNCHANGED << origin, enc, parsedAsLegacy, released, pkeskVars, grammarVars >>

NextOverlap ==
  \/ \E id \in {1, 2}, passphrase \in Passphrases, config \in OverlapConfigs,
        r \in OverlapRandoms :
       EncryptStart(id, passphrase, config, r)
  \/ \E id \in {1, 2} : EncryptKeyDerived(id)
  \/ \E id \in {1, 2} : EncryptModeReady(id)
  \/ \E id \in {1, 2} : EncryptDigestReady(id)
  \/ \E id \in {1, 2} : EncryptCipherReady(id)

SpecOverlap == InitOverlap /\ [][NextOverlap]_vars

(***************************************************************************)
(* C26  Overlapping encrypt() calls.                                       *)
(***************************************************************************)
\* the packet, written and read again, decrypts with the passphrase to the
\* parameters it holds
DecryptsWith(pkt, passphrase) ==
  \E w \in {write(pkt)} :
    /\ w.err = "ok"
    /\ \E rd \in {read(NewPacket(pkt.version, pkt.algorithm), w.bytes, FALSE)} :
         /\ rd.err = "ok"
         /\ \E d \in {decrypt(rd.pkt, passphrase)} :
              d.err = "ok" /\ d.pkt.privateParams = pkt.privateParams

\* both calls have protected the packet
BothDone ==
  /\ \A id \in {1, 2} : encrypting.call[id].pc = "done"
  /\ ~isDummy(packet)

\* C26 as stated: when two encrypt() calls on a decrypted packet overlap,
\* the packet ends with s2k, s2kUsage, aead, iv, usedModernAEAD and
\* keyMaterial of one and the same call, and decrypts with that call's
\* passphrase.
C26_OverlapAsStated ==
  (BothDone /\ encrypting.overlapped)
    => \E id \in {1, 2} : DecryptsWith(packet, encrypting.call[id].passphrase)

\* a call that runs alone does what encrypt() does
EncryptStepwiseIsEncrypt ==
  \A passphrase \in Passphrases, config \in Configs \cup OverlapConfigs,
     r \in OverlapRandoms :
    encryptStepwise(packet, passphrase, config, r) = encrypt(packet, passphrase, config, r)

\* C26, what the code guarantees: two calls that do not overlap leave the
\* packet protected by the call that started last.
C26_Sequential ==
  (BothDone /\ ~encrypting.overlapped)
    => DecryptsWith(packet, encrypting.call[encrypting.started[2]].passphrase)

\* the calls overlapped and the packet decrypts with neither passphrase
C26_StateMixed ==
  /\ BothDone /\ encrypting.overlapped
  /\ \A id \in {1, 2} : ~DecryptsWith(packet, encrypting.call[id].passphrase)

\* the calls overlapped and the packet decrypts with the passphrase of one
C26_StateOverlapConsistent ==
  /\ BothDone /\ encrypting.overlapped
  /\ \E id \in {1, 2} : DecryptsWith(packet, encrypting.call[id].passphrase)

\* the calls did not overlap
C26_StateSequential ==
  BothDone /\ ~encrypting.overlapped /\ Len(encrypting.started) = 2

(***************************************************************************)
(* C27  write() in every reachable state.                                  *)
(***************************************************************************)
\* an operation has filled the packet
Filled(pkt) == ~IsNull(pkt.publicParams)

\* the packet is marked encrypted, is no dummy, and holds the key material
\* that write() serializes and decrypt() reads
HoldsKeyMaterial(pkt) ==
  \/ ~IsNull(pkt.unparseableKeyMaterial)
  \/ /\ ~IsNull(pkt.keyMaterial) /\ Truthy(pkt.s2kUsage)
     /\ ~IsNull(pkt.s2k) /\ ~IsNull(pkt.iv)

\* C27 as stated: write() succeeds in every state reachable through read,
\* generate, encrypt, decrypt, clearPrivateParams and makeDummy, and a
\* packet that is marked encrypted and is no dummy holds the key material
\* needed to write and decrypt it.
C27_WriteAlwaysAsStated ==
  Filled(packet) =>
    /\ write(packet).err = "ok"
    /\ (packet.isEncrypted = Some(TRUE) /\ ~isDummy(packet)) => HoldsKeyMaterial(packet)

\* C27, what the code guarantees: write() succeeds on a dummy, on a packet
\* with unparseable key material, on a decrypted packet that holds its
\* parameters and is unprotected or was protected by a successful
\* encrypt(), and on an encrypted packet that holds key material.
C27_WriteAlways ==
  Filled(packet) =>
    /\ (isDummy(packet) \/ ~IsNull(packet.unparseableKeyMaterial)) => write(packet).err = "ok"
    /\ (isDecrypted(packet) /\ ~IsNull(packet.privateParams) /\ ~Truthy(packet.s2kUsage))
         => write(packet).err = "ok"
    /\ (isDecrypted(packet) /\ ~IsNull(enc)) => write(packet).err = "ok"
    /\ (packet.isEncrypted = Some(TRUE) /\ HoldsKeyMaterial(packet)) => write(packet).err = "ok"

\* a generated packet after clearPrivateParams(): marked encrypted, no
\* parameters, no key material, and write() throws
C27_StateCleared ==
  /\ Filled(packet) /\ ~isDummy(packet)
  /\ packet.isEncrypted = Some(TRUE) /\ IsNull(packet.privateParams)
  /\ IsNull(packet.keyMaterial) /\ packet.s2kUsage = 0
  /\ write(packet).err # "ok"

\* a packet that was read encrypted: write() gives its bytes
C27_StateReadEncrypted ==
  /\ EncryptedState(packet) /\ HoldsKeyMaterial(packet) /\ packet.s2kUsage = 254
  /\ write(packet).err = "ok"

(***************************************************************************)
(* C28  clearPrivateParams() total and idempotent.                         *)
(***************************************************************************)
\* C28 as stated: in every state an operation has led to,
\* clearPrivateParams() returns without error, and a second call changes
\* nothing.
C28_ClearTotalAsStated ==
  Filled(packet) =>
    \E c \in {clearPrivateParams(packet)} :
      /\ c.err = "ok"
      /\ \E c2 \in {clearPrivateParams(c.pkt)} : c2.err = "ok" /\ c2.pkt = c.pkt

\* C28, what the code does: clearPrivateParams() returns on a packet that
\* misses its secret key material or holds its parameters, and throws a
\* TypeError, changing nothing, on any other packet: one that was read
\* encrypted or that was cleared before.
C28_ClearTotal ==
  \E c \in {clearPrivateParams(packet)} :
    /\ (isMissingSecretKeyMaterial(packet) \/ ~IsNull(packet.privateParams)) => c.err = "ok"
    /\ (~isMissingSecretKeyMaterial(packet) /\ IsNull(packet.privateParams))
         => c.err = "TypeError" /\ c.pkt = packet
    /\ isMissingSecretKeyMaterial(packet) => c.pkt = packet
    /\ (c.err = "ok" /\ ~isMissingSecretKeyMaterial(packet))
         => clearPrivateParams(c.pkt).err = "TypeError"

\* a packet that was read encrypted: clearPrivateParams() throws
C28_StateReadEncrypted ==
  /\ EncryptedState(packet) /\ ~IsNull(packet.keyMaterial)
  /\ clearPrivateParams(packet).err = "TypeError"

\* a generated packet: the first call clears it, the second throws
C28_StateSecondCall ==
  /\ DecryptedState(packet) /\ origin = "generate"
  /\ clearPrivateParams(packet).err = "ok"
  /\ clearPrivateParams(clearPrivateParams(packet).pkt).err = "TypeError"

\* a dummy: both calls return and change nothing
C28_StateDummy ==
  /\ isDummy(packet)
  /\ clearPrivateParams(packet) = [pkt |-> packet, err |-> "ok"]

(***************************************************************************)
(* C29  A failed PKESK decrypt().                                          *)
(***************************************************************************)
\* the packet decrypt() may be called on
Decryptable == ~IsNull(pkesk.version) /\ ~IsNull(pkesk.publicKeyAlgorithm)

\* C29 as stated: a failed decrypt() (algorithm mismatch with the key,
\* decryption error, unexpected session key size) leaves sessionKey and
\* sessionKeyAlgorithm of the packet as they were.
C29_FailedDecryptAsStated ==
  Decryptable =>
    \A key \in RecipientKeys, randomSessionKey \in RandomSessionKeys :
      \E d \in {pkeskDecrypt(pkesk, key, randomSessionKey)} :
        d.err # "ok" => /\ d.pkt.sessionKey = pkesk.sessionKey
                        /\ d.pkt.sessionKeyAlgorithm = pkesk.sessionKeyAlgorithm

\* C29, what the code does: a failed decrypt() leaves sessionKey as it was
\* and the other fields too, except that on a version 3 packet whose
\* algorithm carries the cipher in the encrypted payload the check of the
\* session key size fails after sessionKeyAlgorithm was overwritten with
\* the decoded one.
C29_FailedDecrypt ==
  Decryptable =>
    \A key \in RecipientKeys, randomSessionKey \in RandomSessionKeys :
      \E d \in {pkeskDecrypt(pkesk, key, randomSessionKey)} :
        d.err # "ok" =>
          /\ d.pkt.sessionKey = pkesk.sessionKey
          /\ d.pkt = [pkesk EXCEPT !.sessionKeyAlgorithm = d.pkt.sessionKeyAlgorithm]
          /\ d.pkt.sessionKeyAlgorithm # pkesk.sessionKeyAlgorithm
               => /\ pkesk.version = Some(3)
                  /\ Val(pkesk.publicKeyAlgorithm) \notin algosWithV3CleartextSessionKeyAlgorithm
                  /\ d.err \in {"Unexpected session key size", "Unsupported cipher algorithm"}

\* decrypt() has thrown on the size of the session key and the packet
\* holds the decoded algorithm and no session key
C29_StateOverwritten ==
  /\ thrown = "Unexpected session key size"
  /\ pkesk.version = Some(3)
  /\ IsNull(pkesk.sessionKey) /\ ~IsNull(pkesk.sessionKeyAlgorithm)
  /\ built = "read"

\* decrypt() has thrown for the wrong key and the packet is as it was read
C29_StateMismatch ==
  /\ thrown = "Decryption error"
  /\ built = "read"
  /\ IsNull(pkesk.sessionKey) /\ IsNull(pkesk.sessionKeyAlgorithm)
====
